---------------------------- MODULE Spec2Model ----------------------------
(***************************************************************************)
(* A model of the Vector3 class of src/src/Vector2.ts and of the scratch   *)
(* pool of src/unnamed/part_000 (getMathTmp).                              *)
(*                                                                         *)
(* Numbers.  A JavaScript number is modelled as an exact value             *)
(* (n / d) * sqrt(r), r square-free, together with the IEEE-754 special    *)
(* values: +0 and -0, +Infinity, -Infinity and NaN.  Arithmetic is exact:  *)
(* the rounding of the 53-bit mantissa and gradual underflow are not       *)
(* modelled.  A sum of two values with different radicands has no          *)
(* representation; it yields the value Unrep, which every operator         *)
(* propagates and which the specifications below never produce             *)
(* (NoUnrep).                                                              *)
(*                                                                         *)
(* Objects.  Vector3 instances live in `heap`, a sequence: an instance is  *)
(* its index, `new Vector3(..)` appends.  Every method is an operator from *)
(* a heap to its outcome [h, ret, num, threw]: the heap after the call,    *)
(* the instance returned (Undef for undefined), the number returned, and   *)
(* whether the call threw.  Field writes are in the order of the source,   *)
(* so that a result instance that aliases an input behaves as in the code. *)
(*                                                                         *)
(* Specifications.  SpecToRef, SpecAlloc, SpecInPlace and SpecTransform    *)
(* are a caller that holds three vectors and makes one call of a to-ref,   *)
(* an allocating, an in-place or a TransformCoordinates method, over every *)
(* aliasing of the instances (SpecAlloc and SpecInPlace also chain one     *)
(* call on what the first returned).  SpecPool is a process that calls     *)
(* getMathTmp, GetAngleBetweenVectors and RotationFromAxisToRef any number *)
(* of times in any order.  SpecMatrix makes one call of one of the eight    *)
(* transforms by a matrix, SpecSpline one call of Hermite or CatmullRom,   *)
(* SpecQuery one call of GetClipFactor or getHashCode, and SpecArray one   *)
(* call of toArray, FromArray or FromArrayToRef on a buffer of the caller, *)
(* or a toArray followed by a read of what it wrote.  SpecReturn makes one *)
(* call of one of the nine to-ref methods of an instance, SpecUniform one  *)
(* read of isNonUniform.  SpecInterleaved is a process in which calls of   *)
(* GetAngleBetweenVectors run statement by statement, interleaved.         *)
(***************************************************************************)
EXTENDS Integers, Sequences, FiniteSets, TLC

---------------------------------------------------------------------------
(* JavaScript numbers *)

Num(n, d, r) == [n |-> n, d |-> d, r |-> r]

PosZero == Num(0, 1, 1)
NegZero == Num(0, -1, 1)
PosInf == Num(1, 0, 1)
NegInf == Num(-1, 0, 1)
NaN == Num(0, 0, 1)
Unrep == Num(0, 0, 0)

IsUnrep(a) == a.r = 0
IsNaN(a) == a.d = 0 /\ a.n = 0 /\ a.r = 1
IsInf(a) == a.d = 0 /\ a.n # 0
IsZero(a) == a.n = 0 /\ a.d # 0
IsFinite(a) == a.d # 0 /\ a.r # 0
IsRational(a) == IsFinite(a) /\ a.r = 1

\* The angle Math.acos(c), -1 <= c < 1, kept symbolic, and its negation.
Acos(c) == [n |-> 0, d |-> 0, r |-> 0, acos |-> c, neg |-> FALSE]
IsAcos(a) == "acos" \in DOMAIN a

AbsInt(i) == IF i < 0 THEN -i ELSE i

\* The sign bit of a number that is not NaN: 1 or -1 (that of -0 is -1).
Sgn(a) == IF a.n > 0 \/ (a.n = 0 /\ a.d > 0) THEN 1 ELSE -1

SignedZero(s) == IF s > 0 THEN PosZero ELSE NegZero
SignedInf(s) == IF s > 0 THEN PosInf ELSE NegInf

RECURSIVE Gcd(_, _)
Gcd(a, b) == IF b = 0 THEN a ELSE Gcd(b, a % b)

\* <<k, s>> with m = k * k * s and s square-free, for m = k0 * k0 * m0.
RECURSIVE SquarePart(_, _, _)
SquarePart(m, i, k) ==
  IF i * i > m THEN <<k, m>>
  ELSE IF m % (i * i) = 0 THEN SquarePart(m \div (i * i), i, k * i)
  ELSE SquarePart(m, i + 1, k)

\* The number (n / d) * sqrt(r) for integers n # 0, d > 0, r > 0.
Canon(n, d, r) ==
  LET kr == SquarePart(r, 2, 1)
      nn == n * kr[1]
      g == Gcd(AbsInt(nn), d)
  IN Num(nn \div g, d \div g, kr[2])

\* Int: the number of an integer literal.
Int2Num(i) == IF i = 0 THEN PosZero ELSE Num(i, 1, 1)

\* A fraction literal i / j, j > 0.
Frac(i, j) == IF i = 0 THEN PosZero ELSE Canon(i, j, 1)

\* -a
NumNeg(a) ==
  IF IsUnrep(a) THEN (IF IsAcos(a) THEN [a EXCEPT !.neg = ~a.neg] ELSE a)
  ELSE IF IsNaN(a) THEN a
  ELSE IF IsZero(a) THEN Num(0, -a.d, 1)
  ELSE Num(-a.n, a.d, a.r)

\* a + b
NumAdd(a, b) ==
  IF IsUnrep(a) \/ IsUnrep(b) THEN Unrep
  ELSE IF IsNaN(a) \/ IsNaN(b) THEN NaN
  ELSE IF IsInf(a) THEN (IF IsInf(b) /\ b.n # a.n THEN NaN ELSE a)
  ELSE IF IsInf(b) THEN b
  ELSE IF IsZero(a) THEN (IF IsZero(b) THEN SignedZero(IF a.d < 0 /\ b.d < 0 THEN -1 ELSE 1) ELSE b)
  ELSE IF IsZero(b) THEN a
  ELSE IF a.r # b.r THEN Unrep
  ELSE LET s == a.n * b.d + b.n * a.d
       IN IF s = 0 THEN PosZero ELSE Canon(s, a.d * b.d, a.r)

\* a - b
NumSub(a, b) == NumAdd(a, NumNeg(b))

\* a * b
NumMul(a, b) ==
  IF IsUnrep(a) \/ IsUnrep(b) THEN Unrep
  ELSE IF IsNaN(a) \/ IsNaN(b) THEN NaN
  ELSE IF (IsInf(a) /\ IsZero(b)) \/ (IsZero(a) /\ IsInf(b)) THEN NaN
  ELSE IF IsInf(a) \/ IsInf(b) THEN SignedInf(Sgn(a) * Sgn(b))
  ELSE IF IsZero(a) \/ IsZero(b) THEN SignedZero(Sgn(a) * Sgn(b))
  ELSE Canon(a.n * b.n, a.d * b.d, a.r * b.r)

\* a / b
NumDiv(a, b) ==
  IF IsUnrep(a) \/ IsUnrep(b) THEN Unrep
  ELSE IF IsNaN(a) \/ IsNaN(b) THEN NaN
  ELSE IF (IsInf(a) /\ IsInf(b)) \/ (IsZero(a) /\ IsZero(b)) THEN NaN
  ELSE IF IsInf(a) \/ IsZero(b) THEN SignedInf(Sgn(a) * Sgn(b))
  ELSE IF IsZero(a) \/ IsInf(b) THEN SignedZero(Sgn(a) * Sgn(b))
  ELSE Canon(Sgn(b) * a.n * b.d, a.d * AbsInt(b.n) * b.r, a.r * b.r)

\* Math.sqrt(a) for the values the code takes it of: sums of squares.
MathSqrt(a) ==
  IF IsUnrep(a) \/ IsNaN(a) \/ IsZero(a) THEN a
  ELSE IF a.n < 0 THEN NaN
  ELSE IF IsInf(a) THEN PosInf
  ELSE IF a.r # 1 THEN Unrep
  ELSE Canon(1, a.d, a.n * a.d)

\* Math.abs(a)
MathAbs(a) == IF IsUnrep(a) \/ IsNaN(a) THEN a ELSE IF Sgn(a) < 0 THEN NumNeg(a) ELSE a

\* Math.floor(a), a rational
MathFloor(a) ==
  IF ~IsFinite(a) \/ IsZero(a) THEN a
  ELSE IF a.r # 1 THEN Unrep
  ELSE LET q == a.n \div a.d
       IN IF q = 0 THEN SignedZero(Sgn(a)) ELSE Num(q, 1, 1)

\* The order of two numbers neither of which is NaN: -1, 0 or 1.
Cmp(a, b) ==
  LET diff == NumSub(a, b)
  IN IF IsInf(a) /\ IsInf(b) /\ a.n = b.n THEN 0
     ELSE IF ~IsUnrep(diff) THEN (IF IsZero(diff) THEN 0 ELSE Sgn(diff))
     ELSE IF Sgn(a) # Sgn(b) THEN Sgn(a)
     ELSE LET l == a.n * a.n * a.r * b.d * b.d
              m == b.n * b.n * b.r * a.d * a.d
          IN IF l = m THEN 0 ELSE IF l > m THEN Sgn(a) ELSE -Sgn(a)

Comparable(a, b) == ~IsNaN(a) /\ ~IsNaN(b) /\ ~IsUnrep(a) /\ ~IsUnrep(b)

\* a < b, a > b, a <= b, a === b
NumLt(a, b) == Comparable(a, b) /\ Cmp(a, b) < 0
NumGt(a, b) == Comparable(a, b) /\ Cmp(a, b) > 0
NumLe(a, b) == Comparable(a, b) /\ Cmp(a, b) <= 0
StrictEq(a, b) == Comparable(a, b) /\ Cmp(a, b) = 0


---------------------------------------------------------------------------
(* Vector3 instances, matrices and quaternions *)

Vec(x, y, z) == [x |-> x, y |-> y, z |-> z]

\* A call's outcome: the heap it leaves, the reference it returns (Undef: none), the
\* number it returns (NaN when it returns none) and whether it threw.
Undef == 0
Out(h, ret) == [h |-> h, ret |-> ret, num |-> NaN, threw |-> FALSE]
OutNum(h, v) == [h |-> h, ret |-> Undef, num |-> v, threw |-> FALSE]
TypeError(h) == [h |-> h, ret |-> Undef, num |-> NaN, threw |-> TRUE]

\* new Vector3(x, y, z)
NewVector3(h, x, y, z) == Out(Append(h, Vec(x, y, z)), Len(h) + 1)

\* Vector3.Zero(), Vector3.Up()
Zero(h) == NewVector3(h, PosZero, PosZero, PosZero)
Up(h) == NewVector3(h, PosZero, Int2Num(1), PosZero)

\* this.x = x; this.y = y; this.z = z; return this
copyFromFloats(h, this, x, y, z) ==
  LET h1 == [h EXCEPT ![this].x = x]
      h2 == [h1 EXCEPT ![this].y = y]
      h3 == [h2 EXCEPT ![this].z = z]
  IN Out(h3, this)

copyFrom(h, this, source) == copyFromFloats(h, this, h[source].x, h[source].y, h[source].z)

\* this.x += x; this.y += y; this.z += z; return this
addInPlaceFromFloats(h, this, x, y, z) ==
  LET h1 == [h EXCEPT ![this].x = NumAdd(h[this].x, x)]
      h2 == [h1 EXCEPT ![this].y = NumAdd(h1[this].y, y)]
      h3 == [h2 EXCEPT ![this].z = NumAdd(h2[this].z, z)]
  IN Out(h3, this)

addInPlace(h, this, otherVector) ==
  addInPlaceFromFloats(h, this, h[otherVector].x, h[otherVector].y, h[otherVector].z)

\* An add that accumulates into its receiver.
addIntoThis(h, this, otherVector) == addInPlace(h, this, otherVector)

add(h, this, otherVector) ==
  NewVector3(h, NumAdd(h[this].x, h[otherVector].x),
                NumAdd(h[this].y, h[otherVector].y),
                NumAdd(h[this].z, h[otherVector].z))

addToRef(h, this, otherVector, result) ==
  copyFromFloats(h, result, NumAdd(h[this].x, h[otherVector].x),
                            NumAdd(h[this].y, h[otherVector].y),
                            NumAdd(h[this].z, h[otherVector].z))

\* this.x -= otherVector.x; ...: each line reads otherVector after the line before wrote this
subtractInPlace(h, this, otherVector) ==
  LET h1 == [h EXCEPT ![this].x = NumSub(h[this].x, h[otherVector].x)]
      h2 == [h1 EXCEPT ![this].y = NumSub(h1[this].y, h1[otherVector].y)]
      h3 == [h2 EXCEPT ![this].z = NumSub(h2[this].z, h2[otherVector].z)]
  IN Out(h3, this)

\* A subtract with its operands exchanged.
subtractFromOther(h, this, otherVector) ==
  NewVector3(h, NumSub(h[otherVector].x, h[this].x), NumSub(h[otherVector].y, h[this].y),
             NumSub(h[otherVector].z, h[this].z))

subtract(h, this, otherVector) ==
  NewVector3(h, NumSub(h[this].x, h[otherVector].x),
                NumSub(h[this].y, h[otherVector].y),
                NumSub(h[this].z, h[otherVector].z))

subtractFromFloats(h, this, x, y, z) ==
  NewVector3(h, NumSub(h[this].x, x), NumSub(h[this].y, y), NumSub(h[this].z, z))

subtractFromFloatsToRef(h, this, x, y, z, result) ==
  copyFromFloats(h, result, NumSub(h[this].x, x), NumSub(h[this].y, y), NumSub(h[this].z, z))

subtractToRef(h, this, otherVector, result) ==
  subtractFromFloatsToRef(h, this, h[otherVector].x, h[otherVector].y, h[otherVector].z, result)

negate(h, this) == NewVector3(h, NumNeg(h[this].x), NumNeg(h[this].y), NumNeg(h[this].z))

\* this.x *= scale; this.y *= scale; this.z *= scale; return this
scaleInPlace(h, this, scale) ==
  LET h1 == [h EXCEPT ![this].x = NumMul(h[this].x, scale)]
      h2 == [h1 EXCEPT ![this].y = NumMul(h1[this].y, scale)]
      h3 == [h2 EXCEPT ![this].z = NumMul(h2[this].z, scale)]
  IN Out(h3, this)

scale(h, this, scale_) ==
  NewVector3(h, NumMul(h[this].x, scale_), NumMul(h[this].y, scale_), NumMul(h[this].z, scale_))

scaleToRef(h, this, scale_, result) ==
  copyFromFloats(h, result, NumMul(h[this].x, scale_), NumMul(h[this].y, scale_),
                            NumMul(h[this].z, scale_))

scaleAndAddToRef(h, this, scale_, result) ==
  addInPlaceFromFloats(h, result, NumMul(h[this].x, scale_), NumMul(h[this].y, scale_),
                                  NumMul(h[this].z, scale_))

multiplyInPlace(h, this, otherVector) ==
  LET h1 == [h EXCEPT ![this].x = NumMul(h[this].x, h[otherVector].x)]
      h2 == [h1 EXCEPT ![this].y = NumMul(h1[this].y, h1[otherVector].y)]
      h3 == [h2 EXCEPT ![this].z = NumMul(h2[this].z, h2[otherVector].z)]
  IN Out(h3, this)

multiplyByFloats(h, this, x, y, z) ==
  NewVector3(h, NumMul(h[this].x, x), NumMul(h[this].y, y), NumMul(h[this].z, z))

multiply(h, this, otherVector) ==
  multiplyByFloats(h, this, h[otherVector].x, h[otherVector].y, h[otherVector].z)

multiplyToRef(h, this, otherVector, result) ==
  copyFromFloats(h, result, NumMul(h[this].x, h[otherVector].x),
                            NumMul(h[this].y, h[otherVector].y),
                            NumMul(h[this].z, h[otherVector].z))

divide(h, this, otherVector) ==
  NewVector3(h, NumDiv(h[this].x, h[otherVector].x),
                NumDiv(h[this].y, h[otherVector].y),
                NumDiv(h[this].z, h[otherVector].z))

divideToRef(h, this, otherVector, result) ==
  copyFromFloats(h, result, NumDiv(h[this].x, h[otherVector].x),
                            NumDiv(h[this].y, h[otherVector].y),
                            NumDiv(h[this].z, h[otherVector].z))

divideInPlace(h, this, otherVector) == divideToRef(h, this, otherVector, this)

\* if (x < this.x) this.x = x; ...
minimizeInPlaceFromFloats(h, this, x, y, z) ==
  LET h1 == IF NumLt(x, h[this].x) THEN [h EXCEPT ![this].x = x] ELSE h
      h2 == IF NumLt(y, h1[this].y) THEN [h1 EXCEPT ![this].y = y] ELSE h1
      h3 == IF NumLt(z, h2[this].z) THEN [h2 EXCEPT ![this].z = z] ELSE h2
  IN Out(h3, this)

maximizeInPlaceFromFloats(h, this, x, y, z) ==
  LET h1 == IF NumGt(x, h[this].x) THEN [h EXCEPT ![this].x = x] ELSE h
      h2 == IF NumGt(y, h1[this].y) THEN [h1 EXCEPT ![this].y = y] ELSE h1
      h3 == IF NumGt(z, h2[this].z) THEN [h2 EXCEPT ![this].z = z] ELSE h2
  IN Out(h3, this)

minimizeInPlace(h, this, other) ==
  minimizeInPlaceFromFloats(h, this, h[other].x, h[other].y, h[other].z)

maximizeInPlace(h, this, other) ==
  maximizeInPlaceFromFloats(h, this, h[other].x, h[other].y, h[other].z)

floor(h, this) ==
  NewVector3(h, MathFloor(h[this].x), MathFloor(h[this].y), MathFloor(h[this].z))

fract(h, this) ==
  NewVector3(h, NumSub(h[this].x, MathFloor(h[this].x)),
                NumSub(h[this].y, MathFloor(h[this].y)),
                NumSub(h[this].z, MathFloor(h[this].z)))

clone(h, this) == NewVector3(h, h[this].x, h[this].y, h[this].z)

\* this.x * this.x + this.y * this.y + this.z * this.z
lengthSquared(h, this) ==
  NumAdd(NumAdd(NumMul(h[this].x, h[this].x), NumMul(h[this].y, h[this].y)),
         NumMul(h[this].z, h[this].z))

length(h, this) == MathSqrt(lengthSquared(h, this))

One == Int2Num(1)

\* A normalizeFromLength without the test for lengths 0 and 1.
normalizeFromLengthUnguarded(h, this, len) == scaleInPlace(h, this, NumDiv(One, len))

normalizeFromLength(h, this, len) ==
  IF StrictEq(len, PosZero) \/ StrictEq(len, One) THEN Out(h, this)
  ELSE scaleInPlace(h, this, NumDiv(One, len))

normalize(h, this) == normalizeFromLength(h, this, length(h, this))

normalizeToRef(h, this, reference) ==
  LET len == length(h, this)
  IN IF StrictEq(len, PosZero) \/ StrictEq(len, One)
     THEN copyFromFloats(h, reference, h[this].x, h[this].y, h[this].z)
     ELSE scaleToRef(h, this, NumDiv(One, len), reference)

normalizeToNew(h, this) ==
  LET normalized == NewVector3(h, PosZero, PosZero, PosZero)
  IN Out(normalizeToRef(normalized.h, this, normalized.ret).h, normalized.ret)

\* this.x === otherVector.x && this.y === otherVector.y && this.z === otherVector.z
equals(h, this, otherVector) ==
  /\ StrictEq(h[this].x, h[otherVector].x)
  /\ StrictEq(h[this].y, h[otherVector].y)
  /\ StrictEq(h[this].z, h[otherVector].z)


\* Scalar.WithinEpsilon(a, b, epsilon) and Epsilon, of ./Scalar and ./types
Epsilon == Frac(1, 1000000)
WithinEpsilon(a, b, epsilon) ==
  LET num == NumSub(a, b)
  IN NumLe(NumNeg(epsilon), num) /\ NumLe(num, epsilon)

equalsWithEpsilon(h, this, otherVector, epsilon) ==
  /\ WithinEpsilon(h[this].x, h[otherVector].x, epsilon)
  /\ WithinEpsilon(h[this].y, h[otherVector].y, epsilon)
  /\ WithinEpsilon(h[this].z, h[otherVector].z, epsilon)

\* get isNonUniform(): absX !== absY, then absX !== absZ, then absY !== absZ
isNonUniform(h, this) ==
  LET absX == MathAbs(h[this].x)
      absY == MathAbs(h[this].y)
      absZ == MathAbs(h[this].z)
  IN IF ~StrictEq(absX, absY) THEN TRUE
     ELSE IF ~StrictEq(absX, absZ) THEN TRUE
     ELSE IF ~StrictEq(absY, absZ) THEN TRUE
     ELSE FALSE

---------------------------------------------------------------------------
(* Statics *)

\* new Vector3(vector1.x, vector1.y, vector1.z).addInPlace(vector2)
Add(h, vector1, vector2) ==
  LET v == NewVector3(h, h[vector1].x, h[vector1].y, h[vector1].z)
  IN addInPlace(v.h, v.ret, vector2)

\* left.x * right.x + left.y * right.y + left.z * right.z
Dot(h, left, right) ==
  NumAdd(NumAdd(NumMul(h[left].x, h[right].x), NumMul(h[left].y, h[right].y)),
         NumMul(h[left].z, h[right].z))

\* A CrossToRef whose y has the sign of its second product wrong.
CrossToRefSign(h, left, right, result) ==
  copyFromFloats(h, result,
    NumSub(NumMul(h[left].y, h[right].z), NumMul(h[left].z, h[right].y)),
    NumAdd(NumMul(h[left].z, h[right].x), NumMul(h[left].x, h[right].z)),
    NumSub(NumMul(h[left].x, h[right].y), NumMul(h[left].y, h[right].x)))

\* A CrossToRef that stores each component as soon as it is computed.
CrossToRefUnsafe(h, left, right, result) ==
  LET h1 == [h EXCEPT ![result].x =
               NumSub(NumMul(h[left].y, h[right].z), NumMul(h[left].z, h[right].y))]
      h2 == [h1 EXCEPT ![result].y =
               NumSub(NumMul(h1[left].z, h1[right].x), NumMul(h1[left].x, h1[right].z))]
      h3 == [h2 EXCEPT ![result].z =
               NumSub(NumMul(h2[left].x, h2[right].y), NumMul(h2[left].y, h2[right].x))]
  IN Out(h3, Undef)

CrossToRef(h, left, right, result) ==
  LET x == NumSub(NumMul(h[left].y, h[right].z), NumMul(h[left].z, h[right].y))
      y == NumSub(NumMul(h[left].z, h[right].x), NumMul(h[left].x, h[right].z))
      z == NumSub(NumMul(h[left].x, h[right].y), NumMul(h[left].y, h[right].x))
  IN Out(copyFromFloats(h, result, x, y, z).h, Undef)

Cross(h, left, right) ==
  LET result == Zero(h)
  IN Out(CrossToRef(result.h, left, right, result.ret).h, result.ret)

NormalizeToRef(h, vector, result) == Out(normalizeToRef(h, vector, result).h, Undef)

Normalize(h, vector) ==
  LET result == Zero(h)
  IN Out(NormalizeToRef(result.h, vector, result.ret).h, result.ret)

Minimize(h, left, right) ==
  LET min == NewVector3(h, h[left].x, h[left].y, h[left].z)
  IN Out(minimizeInPlace(min.h, min.ret, right).h, min.ret)

Maximize(h, left, right) ==
  LET max == NewVector3(h, h[left].x, h[left].y, h[left].z)
  IN Out(maximizeInPlace(max.h, max.ret, right).h, max.ret)

Half == Frac(1, 2)

Center(h, value1, value2) ==
  LET center == Add(h, value1, value2)
  IN Out(scaleInPlace(center.h, center.ret, Half).h, center.ret)

\* let x = value.x; x = x > max.x ? max.x : x; x = x < min.x ? min.x : x
ClampScalar(v, lo, hi) ==
  LET x1 == IF NumGt(v, hi) THEN hi ELSE v
  IN IF NumLt(x1, lo) THEN lo ELSE x1

ClampToRef(h, value, min, max, result) ==
  LET x == ClampScalar(h[value].x, h[min].x, h[max].x)
      y == ClampScalar(h[value].y, h[min].y, h[max].y)
      z == ClampScalar(h[value].z, h[min].z, h[max].z)
  IN Out(copyFromFloats(h, result, x, y, z).h, Undef)

Clamp(h, value, min, max) ==
  LET v == NewVector3(h, PosZero, PosZero, PosZero)
  IN Out(ClampToRef(v.h, value, min, max, v.ret).h, v.ret)

\* result.x = start.x + (end.x - start.x) * amount; result.y = ...; result.z = ...
LerpToRef(h, start, end, amount, result) ==
  LET h1 == [h EXCEPT ![result].x =
               NumAdd(h[start].x, NumMul(NumSub(h[end].x, h[start].x), amount))]
      h2 == [h1 EXCEPT ![result].y =
               NumAdd(h1[start].y, NumMul(NumSub(h1[end].y, h1[start].y), amount))]
      h3 == [h2 EXCEPT ![result].z =
               NumAdd(h2[start].z, NumMul(NumSub(h2[end].z, h2[start].z), amount))]
  IN Out(h3, Undef)

Lerp(h, start, end, amount) ==
  LET result == NewVector3(h, PosZero, PosZero, PosZero)
  IN Out(LerpToRef(result.h, start, end, amount, result.ret).h, result.ret)

Two == Int2Num(2)
Three == Int2Num(3)
Four == Int2Num(4)
Five == Int2Num(5)

HermiteScalar(value1, tangent1, value2, tangent2, amount) ==
  LET squared == NumMul(amount, amount)
      cubed == NumMul(amount, squared)
      part1 == NumAdd(NumSub(NumMul(Two, cubed), NumMul(Three, squared)), One)
      part2 == NumAdd(NumMul(NumNeg(Two), cubed), NumMul(Three, squared))
      part3 == NumAdd(NumSub(cubed, NumMul(Two, squared)), amount)
      part4 == NumSub(cubed, squared)
  IN NumAdd(NumAdd(NumAdd(NumMul(value1, part1), NumMul(value2, part2)),
                   NumMul(tangent1, part3)),
            NumMul(tangent2, part4))

\* A Hermite that weights the tangents as the points and the points as the tangents.
HermiteTangentsFirst(h, value1, tangent1, value2, tangent2, amount) ==
  NewVector3(h,
    HermiteScalar(h[tangent1].x, h[value1].x, h[tangent2].x, h[value2].x, amount),
    HermiteScalar(h[tangent1].y, h[value1].y, h[tangent2].y, h[value2].y, amount),
    HermiteScalar(h[tangent1].z, h[value1].z, h[tangent2].z, h[value2].z, amount))

Hermite(h, value1, tangent1, value2, tangent2, amount) ==
  NewVector3(h,
    HermiteScalar(h[value1].x, h[tangent1].x, h[value2].x, h[tangent2].x, amount),
    HermiteScalar(h[value1].y, h[tangent1].y, h[value2].y, h[tangent2].y, amount),
    HermiteScalar(h[value1].z, h[tangent1].z, h[value2].z, h[tangent2].z, amount))

CatmullRomScalar(v1, v2, v3, v4, amount) ==
  LET squared == NumMul(amount, amount)
      cubed == NumMul(amount, squared)
      t0 == NumMul(Two, v2)
      t1 == NumMul(NumAdd(NumNeg(v1), v3), amount)
      t2 == NumMul(NumSub(NumAdd(NumSub(NumMul(Two, v1), NumMul(Five, v2)),
                                 NumMul(Four, v3)), v4), squared)
      t3 == NumMul(NumAdd(NumSub(NumAdd(NumNeg(v1), NumMul(Three, v2)),
                                 NumMul(Three, v3)), v4), cubed)
  IN NumMul(Half, NumAdd(NumAdd(NumAdd(t0, t1), t2), t3))

\* A CatmullRom whose segment runs from value1 to value2, not from value2 to value3.
CatmullRomShifted(h, value1, value2, value3, value4, amount) ==
  NewVector3(h,
    CatmullRomScalar(h[value4].x, h[value1].x, h[value2].x, h[value3].x, amount),
    CatmullRomScalar(h[value4].y, h[value1].y, h[value2].y, h[value3].y, amount),
    CatmullRomScalar(h[value4].z, h[value1].z, h[value2].z, h[value3].z, amount))

CatmullRom(h, value1, value2, value3, value4, amount) ==
  NewVector3(h,
    CatmullRomScalar(h[value1].x, h[value2].x, h[value3].x, h[value4].x, amount),
    CatmullRomScalar(h[value1].y, h[value2].y, h[value3].y, h[value4].y, amount),
    CatmullRomScalar(h[value1].z, h[value2].z, h[value3].z, h[value4].z, amount))

\* const d0 = Vector3.Dot(vector0, axis) - size; const d1 = Vector3.Dot(vector1, axis) - size
\* A GetClipFactor that divides d1, not d0, by d0 - d1.
GetClipFactorOfD1(h, vector0, vector1, axis, size) ==
  OutNum(h, NumDiv(NumSub(Dot(h, vector1, axis), size),
                   NumSub(NumSub(Dot(h, vector0, axis), size),
                          NumSub(Dot(h, vector1, axis), size))))

\* const s = d0 / (d0 - d1); return s
GetClipFactor(h, vector0, vector1, axis, size) ==
  OutNum(h, NumDiv(NumSub(Dot(h, vector0, axis), size),
                   NumSub(NumSub(Dot(h, vector0, axis), size),
                          NumSub(Dot(h, vector1, axis), size))))

---------------------------------------------------------------------------
(* getHashCode.  The operands of ^ are converted by ToInt32 and the result *)
(* is a 32-bit two's-complement integer.                                   *)

\* a ^ b of two 32-bit integers, bit by bit: a \div 2 is the arithmetic shift a >> 1.
RECURSIVE Xor(_, _)
Xor(a, b) ==
  IF a = 0 THEN b
  ELSE IF b = 0 THEN a
  ELSE IF a = -1 THEN -b - 1
  ELSE IF b = -1 THEN -a - 1
  ELSE ((a + b) % 2) + 2 * Xor(a \div 2, b \div 2)

MaxInt32 == 2147483647
MinInt32 == -MaxInt32 - 1

\* a + b modulo 2^32, as a 32-bit integer
WrapAdd(a, b) ==
  IF a >= 0 /\ b >= 0
  THEN (IF a <= MaxInt32 - b THEN a + b ELSE (a - MaxInt32 - 1) + (b - MaxInt32 - 1))
  ELSE IF a < 0 /\ b < 0
  THEN (IF a >= MinInt32 - b THEN a + b ELSE (a + MaxInt32 + 1) + (b + MaxInt32 + 1))
  ELSE a + b

\* a * 2^k modulo 2^32
RECURSIVE Shl(_, _)
Shl(a, k) == IF k = 0 THEN a ELSE Shl(WrapAdd(a, a), k - 1)

\* ToInt32(hash * 397) for a 32-bit integer hash: the product is exact in a double,
\* and 397 = 2^8 + 2^7 + 2^3 + 2^2 + 1.
Times397(a) ==
  WrapAdd(WrapAdd(WrapAdd(WrapAdd(Shl(a, 8), Shl(a, 7)), Shl(a, 3)), Shl(a, 2)), a)

\* ToInt32(a) of a number of magnitude below 2^31: NaN and the infinities give 0, any
\* other number is truncated towards zero.
ToInt32(a) ==
  IF IsNaN(a) \/ IsInf(a) \/ IsZero(a) THEN 0
  ELSE Sgn(a) * (AbsInt(a.n) \div a.d)

\* a || 0: 0 when a is NaN, +0 or -0
OrZero(a) == IF IsNaN(a) \/ IsZero(a) THEN PosZero ELSE a

HashFactor == 397

\* A getHashCode that does not multiply: x ^ y ^ z.
getHashCodeUnordered(h, this) ==
  OutNum(h, Int2Num(Xor(Xor(ToInt32(OrZero(h[this].x)), ToInt32(OrZero(h[this].y))),
                        ToInt32(OrZero(h[this].z)))))

\* let hash = this.x || 0; hash = (hash * 397) ^ (this.y || 0);
\* hash = (hash * 397) ^ (this.z || 0); return hash
getHashCode(h, this) ==
  OutNum(h, Int2Num(
    Xor(Times397(Xor(ToInt32(NumMul(OrZero(h[this].x), Int2Num(HashFactor))),
                     ToInt32(OrZero(h[this].y)))),
        ToInt32(OrZero(h[this].z)))))

---------------------------------------------------------------------------
(* Transforms.  A matrix is passed as its `m`: a sequence of 16 numbers,   *)
(* m[i] of the source being M(m, i).  A quaternion is [x, y, z, w].        *)

M(m, i) == m[i + 1]

\* A TransformCoordinatesFromFloatsToRef without the division by w.
TransformCoordinatesNoDivide(h, x, y, z, m, result) ==
  copyFromFloats(h, result,
    NumAdd(NumAdd(NumAdd(NumMul(x, M(m, 0)), NumMul(y, M(m, 4))), NumMul(z, M(m, 8))), M(m, 12)),
    NumAdd(NumAdd(NumAdd(NumMul(x, M(m, 1)), NumMul(y, M(m, 5))), NumMul(z, M(m, 9))), M(m, 13)),
    NumAdd(NumAdd(NumAdd(NumMul(x, M(m, 2)), NumMul(y, M(m, 6))), NumMul(z, M(m, 10))), M(m, 14)))

TransformCoordinatesFromFloatsToRef(h, x, y, z, m, result) ==
  LET rx == NumAdd(NumAdd(NumAdd(NumMul(x, M(m, 0)), NumMul(y, M(m, 4))), NumMul(z, M(m, 8))), M(m, 12))
      ry == NumAdd(NumAdd(NumAdd(NumMul(x, M(m, 1)), NumMul(y, M(m, 5))), NumMul(z, M(m, 9))), M(m, 13))
      rz == NumAdd(NumAdd(NumAdd(NumMul(x, M(m, 2)), NumMul(y, M(m, 6))), NumMul(z, M(m, 10))), M(m, 14))
      rw == NumDiv(One, NumAdd(NumAdd(NumAdd(NumMul(x, M(m, 3)), NumMul(y, M(m, 7))), NumMul(z, M(m, 11))), M(m, 15)))
      h1 == [h EXCEPT ![result].x = NumMul(rx, rw)]
      h2 == [h1 EXCEPT ![result].y = NumMul(ry, rw)]
      h3 == [h2 EXCEPT ![result].z = NumMul(rz, rw)]
  IN Out(h3, Undef)

TransformCoordinatesToRef(h, vector, m, result) ==
  TransformCoordinatesFromFloatsToRef(h, h[vector].x, h[vector].y, h[vector].z, m, result)

\* A TransformCoordinates that transforms the new zero vector, not `vector`.
TransformCoordinatesOfZero(h, vector, m) ==
  LET result == Zero(h)
  IN Out(TransformCoordinatesToRef(result.h, result.ret, m, result.ret).h, result.ret)

TransformCoordinates(h, vector, m) ==
  LET result == Zero(h)
  IN Out(TransformCoordinatesToRef(result.h, vector, m, result.ret).h, result.ret)

\* A TransformNormalFromFloatsToRef that adds the translation m[12], m[13], m[14].
TransformNormalTranslating(h, x, y, z, m, result) ==
  copyFromFloats(h, result,
    NumAdd(NumAdd(NumAdd(NumMul(x, M(m, 0)), NumMul(y, M(m, 4))), NumMul(z, M(m, 8))), M(m, 12)),
    NumAdd(NumAdd(NumAdd(NumMul(x, M(m, 1)), NumMul(y, M(m, 5))), NumMul(z, M(m, 9))), M(m, 13)),
    NumAdd(NumAdd(NumAdd(NumMul(x, M(m, 2)), NumMul(y, M(m, 6))), NumMul(z, M(m, 10))), M(m, 14)))

TransformNormalFromFloatsToRef(h, x, y, z, m, result) ==
  LET h1 == [h EXCEPT ![result].x =
               NumAdd(NumAdd(NumMul(x, M(m, 0)), NumMul(y, M(m, 4))), NumMul(z, M(m, 8)))]
      h2 == [h1 EXCEPT ![result].y =
               NumAdd(NumAdd(NumMul(x, M(m, 1)), NumMul(y, M(m, 5))), NumMul(z, M(m, 9)))]
      h3 == [h2 EXCEPT ![result].z =
               NumAdd(NumAdd(NumMul(x, M(m, 2)), NumMul(y, M(m, 6))), NumMul(z, M(m, 10)))]
  IN Out(h3, Undef)

TransformNormalToRef(h, vector, m, result) ==
  TransformNormalFromFloatsToRef(h, h[vector].x, h[vector].y, h[vector].z, m, result)

TransformNormal(h, vector, m) ==
  LET result == Zero(h)
  IN Out(TransformNormalToRef(result.h, vector, m, result.ret).h, result.ret)

\* const { x, y, z } = this; const w = 1 / (...); result.x = ...; return result
applyMatrix4ToRef(h, this, m, result) ==
  LET x == h[this].x
      y == h[this].y
      z == h[this].z
      w == NumDiv(One, NumAdd(NumAdd(NumAdd(NumMul(M(m, 3), x), NumMul(M(m, 7), y)), NumMul(M(m, 11), z)), M(m, 15)))
      h1 == [h EXCEPT ![result].x =
               NumMul(NumAdd(NumAdd(NumAdd(NumMul(M(m, 0), x), NumMul(M(m, 4), y)), NumMul(M(m, 8), z)), M(m, 12)), w)]
      h2 == [h1 EXCEPT ![result].y =
               NumMul(NumAdd(NumAdd(NumAdd(NumMul(M(m, 1), x), NumMul(M(m, 5), y)), NumMul(M(m, 9), z)), M(m, 13)), w)]
      h3 == [h2 EXCEPT ![result].z =
               NumMul(NumAdd(NumAdd(NumAdd(NumMul(M(m, 2), x), NumMul(M(m, 6), y)), NumMul(M(m, 10), z)), M(m, 14)), w)]
  IN Out(h3, result)

\* this.applyMatrix4ToRef(matrix, this): the method has no return statement
applyMatrix4(h, this, m) == Out(applyMatrix4ToRef(h, this, m, this).h, Undef)

rotateToRef(h, this, q, result) ==
  LET x == h[this].x
      y == h[this].y
      z == h[this].z
      ix == NumSub(NumAdd(NumMul(q.w, x), NumMul(q.y, z)), NumMul(q.z, y))
      iy == NumSub(NumAdd(NumMul(q.w, y), NumMul(q.z, x)), NumMul(q.x, z))
      iz == NumSub(NumAdd(NumMul(q.w, z), NumMul(q.x, y)), NumMul(q.y, x))
      iw == NumSub(NumSub(NumMul(NumNeg(q.x), x), NumMul(q.y, y)), NumMul(q.z, z))
      h1 == [h EXCEPT ![result].x =
               NumSub(NumAdd(NumAdd(NumMul(ix, q.w), NumMul(iw, NumNeg(q.x))), NumMul(iy, NumNeg(q.z))),
                      NumMul(iz, NumNeg(q.y)))]
      h2 == [h1 EXCEPT ![result].y =
               NumSub(NumAdd(NumAdd(NumMul(iy, q.w), NumMul(iw, NumNeg(q.y))), NumMul(iz, NumNeg(q.x))),
                      NumMul(ix, NumNeg(q.z)))]
      h3 == [h2 EXCEPT ![result].z =
               NumSub(NumAdd(NumAdd(NumMul(iz, q.w), NumMul(iw, NumNeg(q.z))), NumMul(ix, NumNeg(q.y))),
                      NumMul(iy, NumNeg(q.x)))]
  IN Out(h3, result)

rotate(h, this, q) == rotateToRef(h, this, q, this)


\* Math.acos(a): NaN outside [-1, 1], 0 at 1, an angle in (0, pi] otherwise
MathAcos(a) ==
  IF IsUnrep(a) THEN Unrep
  ELSE IF IsNaN(a) \/ NumGt(a, One) \/ NumLt(a, NumNeg(One)) THEN NaN
  ELSE IF StrictEq(a, One) THEN PosZero
  ELSE Acos(IF IsZero(a) THEN PosZero ELSE a)

---------------------------------------------------------------------------
(* The scratch pool (src/unnamed/part_000).  The module variable MathTmp   *)
(* is <<>> while it is undefined and <<pool>> once getMathTmp assigned it; *)
(* a pool is [id, Vector3, Matrix, Quaternion, staticUp, tmpMatrix], its   *)
(* slots references into the heaps of vectors, matrices and quaternions.   *)
(* A world is [heap, mats, quats, MathTmp, made]: made counts the pool     *)
(* objects constructed so far.                                             *)

Quat(x, y, z, w) == [x |-> x, y |-> y, z |-> z, w |-> w]

MatrixIdentity ==
  << One, PosZero, PosZero, PosZero,  PosZero, One, PosZero, PosZero,
     PosZero, PosZero, One, PosZero,  PosZero, PosZero, PosZero, One >>
MatrixZero == [i \in 1..16 |-> PosZero]
QuaternionZero == Quat(PosZero, PosZero, PosZero, PosZero)

\* buildArray(size, itemBuilder) of ./utils: size items, each built by its own call
RECURSIVE buildArray(_, _, _)
buildArray(heapOf, size, item) ==
  IF size = 0 THEN heapOf ELSE buildArray(Append(heapOf, item), size - 1, item)

Range(from, count) == [i \in 1..count |-> from + i]

\* A getMathTmp that builds a pool on every call.
getMathTmpAlways(w) ==
  LET vs == buildArray(w.heap, 6, Vec(PosZero, PosZero, PosZero))
      ms == buildArray(w.mats, 2, MatrixIdentity)
      qs == buildArray(w.quats, 3, QuaternionZero)
      pool == [id |-> w.made + 1, Vector3 |-> Range(Len(w.heap), 6),
               Matrix |-> Range(Len(w.mats), 2), Quaternion |-> Range(Len(w.quats), 3),
               staticUp |-> Len(vs) + 1, tmpMatrix |-> Len(ms) + 1]
  IN [w |-> [heap |-> Up(vs).h, mats |-> Append(ms, MatrixZero), quats |-> qs,
             MathTmp |-> <<pool>>, made |-> w.made + 1],
      ret |-> pool.id]

getMathTmp(w) ==
  IF w.MathTmp # <<>> THEN [w |-> w, ret |-> w.MathTmp[1].id]
  ELSE LET vs == buildArray(w.heap, 6, Vec(PosZero, PosZero, PosZero))
           ms == buildArray(w.mats, 2, MatrixIdentity)
           qs == buildArray(w.quats, 3, QuaternionZero)
           up == Up(vs)
           tm == Append(ms, MatrixZero)
           pool == [id |-> w.made + 1,
                    Vector3 |-> Range(Len(w.heap), 6),
                    Matrix |-> Range(Len(w.mats), 2),
                    Quaternion |-> Range(Len(w.quats), 3),
                    staticUp |-> up.ret,
                    tmpMatrix |-> Len(tm)]
       IN [w |-> [heap |-> up.h, mats |-> tm, quats |-> qs,
                  MathTmp |-> <<pool>>, made |-> w.made + 1],
           ret |-> pool.id]

\* The binding `MathTmp` that src/src/Vector2.ts imports: the pool module's variable,
\* undefined until getMathTmp has run.  MathTmp.Vector3[i] of the source is
\* Slot(mt, i); reading it of an undefined MathTmp is a TypeError.
Slot(mt, i) == mt[1].Vector3[i + 1]

\* The statements of GetAngleBetweenVectors in order, each handed what the ones
\* before it computed: r0 and r1 are the outcomes of the two normalizeToRef calls.
\* A GetAngleBetweenVectors that returns Math.acos(dot) whatever the normal is.
GetAngleUnsigned(h, mt, dot, normal) == OutNum(h, MathAcos(dot))

GetAngleSign(h, mt, dot, normal) ==
  IF NumGt(Dot(h, Slot(mt, 3), normal), PosZero)
  THEN OutNum(h, MathAcos(dot))
  ELSE OutNum(h, NumNeg(MathAcos(dot)))

\* A GetAngleBetweenVectors that reads MathTmp.Vector3[3] without the CrossToRef.
GetAngleNoCross(r1, mt, v0, normal) ==
  GetAngleSign(r1.h, mt, Dot(r1.h, v0, r1.ret), normal)

GetAngleCross(r1, mt, v0, normal) ==
  GetAngleSign(CrossToRef(r1.h, v0, r1.ret, Slot(mt, 3)).h, mt, Dot(r1.h, v0, r1.ret), normal)

\* A GetAngleBetweenVectors that normalizes vector1 in place and copies it to the slot.
GetAngleV1InPlace(r0, mt, vector1, normal) ==
  GetAngleCross(copyFrom(normalize(r0.h, vector1).h, Slot(mt, 2), vector1), mt, r0.ret, normal)

GetAngleV1(r0, mt, vector1, normal) ==
  GetAngleCross(normalizeToRef(r0.h, vector1, Slot(mt, 2)), mt, r0.ret, normal)

GetAngleBetweenVectors(h, mt, vector0, vector1, normal) ==
  IF mt = <<>> THEN TypeError(h)
  ELSE GetAngleV1(normalizeToRef(h, vector0, Slot(mt, 1)), mt, vector1, normal)

\* Quaternion.RotationQuaternionFromAxisToRef and the eulerAngles getter of ./Quaternion:
\* the quaternion written is a function of the three axes' components, the angles read
\* are a function of the quaternion.  A number that is such a function's value is
\* [f, of]: the function's name and its arguments.
Opaque(f, of) == [n |-> 0, d |-> 0, r |-> 0, f |-> f, of |-> of]
IsOpaque(a) == "f" \in DOMAIN a

RotationQuaternionFromAxisToRef(qh, axis1, axis2, axis3, ref) ==
  [qh EXCEPT ![ref] = Quat(Opaque("quat.x", <<axis1, axis2, axis3>>),
                           Opaque("quat.y", <<axis1, axis2, axis3>>),
                           Opaque("quat.z", <<axis1, axis2, axis3>>),
                           Opaque("quat.w", <<axis1, axis2, axis3>>))]

eulerAngles(q) ==
  Vec(Opaque("eulerAngles.x", <<q>>), Opaque("eulerAngles.y", <<q>>),
      Opaque("eulerAngles.z", <<q>>))

\* const quat = MathTmp.Quaternion[0]; Quaternion.RotationQuaternionFromAxisToRef(...);
\* ref.copyFrom(quat.eulerAngles).  The outcome is [w, threw]: the world after the call.
RotationFromAxisWrite(w, qs, quat, ref) ==
  [w |-> [w EXCEPT !.quats = qs,
                   !.heap = copyFromFloats(w.heap, ref, eulerAngles(qs[quat]).x,
                                           eulerAngles(qs[quat]).y,
                                           eulerAngles(qs[quat]).z).h],
   threw |-> FALSE]

RotationFromAxisToRef(w, axis1, axis2, axis3, ref) ==
  IF w.MathTmp = <<>> THEN [w |-> w, threw |-> TRUE]
  ELSE RotationFromAxisWrite(w,
         RotationQuaternionFromAxisToRef(w.quats, w.heap[axis1], w.heap[axis2],
                                         w.heap[axis3], w.MathTmp[1].Quaternion[1]),
         w.MathTmp[1].Quaternion[1], ref)

---------------------------------------------------------------------------
(* Arrays.  A FloatArray (./types) is a number[] or a Float32Array: it is  *)
(* [typed, a], element i of the source being a[i + 1].  A number[] keeps    *)
(* the number stored; a Float32Array keeps Math.fround of it, and ignores a *)
(* store past its end.                                                      *)

RECURSIVE IsPowerOfTwo(_)
IsPowerOfTwo(d) == d = 1 \/ (d > 1 /\ d % 2 = 0 /\ IsPowerOfTwo(d \div 2))

\* The numbers below have 24 significant bits at most.
Float32Bits == 24

RECURSIVE Pow2(_)
Pow2(k) == IF k = 0 THEN 1 ELSE 2 * Pow2(k - 1)

\* a is a value of a Float32Array element: NaN, a zero, an infinity, or n / 2^k with
\* |n| < 2^24 (the exponents of the model's numbers are within the range of a float).
Float32Exact(a) ==
  \/ IsNaN(a) \/ IsInf(a) \/ IsZero(a)
  \/ (IsRational(a) /\ IsPowerOfTwo(a.d) /\ AbsInt(a.n) < Pow2(Float32Bits))

\* Math.fround(a): a itself when a float holds it, another number otherwise.
Fround(a) == IF Float32Exact(a) THEN a ELSE Opaque("fround", <<a>>)

\* array[i] = v, for 0 <= i <= array.length
StoreAt(array, i, v) ==
  IF array.typed
  THEN (IF i < Len(array.a) THEN [array EXCEPT !.a[i + 1] = Fround(v)] ELSE array)
  ELSE (IF i < Len(array.a) THEN [array EXCEPT !.a[i + 1] = v]
        ELSE [array EXCEPT !.a = Append(@, v)])

\* A toArray that writes z, y, x.
toArrayReversed(ah, h, this, array, index) ==
  [ah |-> [ah EXCEPT ![array] =
             StoreAt(StoreAt(StoreAt(ah[array], index, h[this].z), index + 1, h[this].y),
                     index + 2, h[this].x)],
   ret |-> this]

\* array[index] = this.x; array[index + 1] = this.y; array[index + 2] = this.z; return this
\* The outcome is [ah, ret]: the arrays after the call and the instance returned.
toArray(ah, h, this, array, index) ==
  [ah |-> [ah EXCEPT ![array] =
             StoreAt(StoreAt(StoreAt(ah[array], index, h[this].x), index + 1, h[this].y),
                     index + 2, h[this].z)],
   ret |-> this]

\* new Vector3(array[offset], array[offset + 1], array[offset + 2]), offset + 2 < array.length
FromArray(h, array, offset) ==
  NewVector3(h, array.a[offset + 1], array.a[offset + 2], array.a[offset + 3])

\* result.x = array[offset]; result.y = array[offset + 1]; result.z = array[offset + 2]
FromArrayToRef(h, array, offset, result) ==
  LET h1 == [h EXCEPT ![result].x = array.a[offset + 1]]
      h2 == [h1 EXCEPT ![result].y = array.a[offset + 2]]
      h3 == [h2 EXCEPT ![result].z = array.a[offset + 3]]
  IN Out(h3, Undef)

---------------------------------------------------------------------------
(* The state machine *)

VARIABLES
  heap,     \* the Vector3 instances: heap[i] is [x, y, z] of instance i
  mats,     \* the Matrix instances, each its 16 numbers
  quats,    \* the Quaternion instances
  MathTmp,  \* the pool module's variable: <<>> (undefined) or <<pool>>
  made,     \* the number of pool objects constructed so far
  arrays,   \* the caller's number arrays: number[] and Float32Array buffers
  chains,   \* the calls of GetAngleBetweenVectors in progress, each its position
  last      \* the last call: what was called, the heap before it, what it returned

vars == <<heap, mats, quats, MathTmp, made, arrays, chains, last>>

\* A call: the method, its receiver, its vector arguments, its numbers, its matrix,
\* its quaternion and its result instance (0 where the method has none).
Call(op, this, args, f, m, q, result) ==
  [op |-> op, this |-> this, args |-> args, f |-> f, m |-> m, q |-> q, result |-> result]

None == Call("none", 0, <<>>, <<>>, 0, 0, 0)

\* last: the call, the heap before it, its outcome, and `chain`: the call that returned
\* the instance this call was made on, with the heap before that call (NoChain unless
\* the caller chained the two).
NoChain == [call |-> None, pre |-> <<>>]
NoCall == [call |-> None, pre |-> <<>>, ret |-> Undef, num |-> NaN, threw |-> FALSE,
           chain |-> NoChain]

\* What the to-ref call c does to heap h.
Exec(h, mh, qh, c) ==
  CASE c.op = "addToRef" -> addToRef(h, c.this, c.args[1], c.result)
    [] c.op = "subtractToRef" -> subtractToRef(h, c.this, c.args[1], c.result)
    [] c.op = "multiplyToRef" -> multiplyToRef(h, c.this, c.args[1], c.result)
    [] c.op = "divideToRef" -> divideToRef(h, c.this, c.args[1], c.result)
    [] c.op = "scaleToRef" -> scaleToRef(h, c.this, c.f[1], c.result)
    [] c.op = "normalizeToRef" -> normalizeToRef(h, c.this, c.result)
    [] c.op = "CrossToRef" -> CrossToRef(h, c.args[1], c.args[2], c.result)
    [] c.op = "ClampToRef" -> ClampToRef(h, c.args[1], c.args[2], c.args[3], c.result)
    [] c.op = "LerpToRef" -> LerpToRef(h, c.args[1], c.args[2], c.f[1], c.result)
    [] c.op = "TransformCoordinatesToRef" ->
         TransformCoordinatesToRef(h, c.args[1], mh[c.m], c.result)
    [] c.op = "TransformCoordinatesFromFloatsToRef" ->
         TransformCoordinatesFromFloatsToRef(h, c.f[1], c.f[2], c.f[3], mh[c.m], c.result)
    [] c.op = "TransformNormalToRef" -> TransformNormalToRef(h, c.args[1], mh[c.m], c.result)
    [] c.op = "rotateToRef" -> rotateToRef(h, c.this, qh[c.q], c.result)
    [] c.op = "applyMatrix4ToRef" -> applyMatrix4ToRef(h, c.this, mh[c.m], c.result)

\* The caller makes call c, whose outcome is o; chain is the call whose returned
\* instance c is made on.
DoChained(c, o, chain) ==
  /\ heap' = o.h
  /\ last' = [call |-> c, pre |-> heap, ret |-> o.ret, num |-> o.num,
              threw |-> o.threw, chain |-> chain]
  /\ UNCHANGED <<mats, quats, MathTmp, made, arrays, chains>>

\* A caller whose call also stores the number it got in m[12] of the matrix it passed.
DoStoringInMatrix(c, o) ==
  /\ heap' = o.h
  /\ last' = [call |-> c, pre |-> heap, ret |-> o.ret, num |-> o.num,
              threw |-> o.threw, chain |-> NoChain]
  /\ mats' = [mats EXCEPT ![c.m][13] = o.h[Len(o.h)].x]
  /\ UNCHANGED <<quats, MathTmp, made, arrays, chains>>

\* The caller makes call c, whose outcome is o, on an instance it holds.
Do(c, o) ==
  /\ heap' = o.h
  /\ last' = [call |-> c, pre |-> heap, ret |-> o.ret, num |-> o.num,
              threw |-> o.threw, chain |-> NoChain]
  /\ UNCHANGED <<mats, quats, MathTmp, made, arrays, chains>>

Refs == DOMAIN heap
Idle == last.call.op = "none"

\* Inputs: the integer vectors of a cube, and vectors with fractions, -0, infinities, NaN.
MaxCoord == 1
Coords == (-MaxCoord)..MaxCoord
Cube == {Vec(Int2Num(x), Int2Num(y), Int2Num(z)) : x, y, z \in Coords}
SpecialVecs ==
  { Vec(PosInf, One, PosZero), Vec(NaN, PosZero, One),
    Vec(NegZero, Half, Frac(-3, 2)), Vec(Three, NumNeg(Four), NegInf),
    Vec(Frac(3, 5), NegZero, Frac(-4, 5)) }
FloatTriples == { <<One, Two, NumNeg(Three)>>, <<PosZero, Half, PosInf>> }
Operands == { Vec(One, Two, Three), Vec(PosZero, NumNeg(Two), Half) }
Scalars == { Two, Frac(-1, 2), PosZero }
Other == Vec(Five, Frac(-7, 2), Int2Num(9))

\* The matrices the caller holds: the identity, an affine map with a translation,
\* and a projective map whose w vanishes for some vectors.
CallerMats ==
  << MatrixIdentity,
     << Two, PosZero, PosZero, PosZero,  PosZero, One, One, PosZero,
        NumNeg(One), PosZero, One, PosZero,  One, Two, Three, One >>,
     << One, PosZero, PosZero, One,  PosZero, Two, PosZero, PosZero,
        PosZero, PosZero, One, One,  PosZero, One, PosZero, Two >> >>
CallerQuats ==
  << Quat(PosZero, PosZero, PosZero, One), Quat(One, PosZero, PosZero, PosZero),
     Quat(PosZero, One, Half, One) >>

\* The buffers the caller holds: a number[] and a Float32Array of five elements each.
CallerArrays ==
  << [typed |-> FALSE, a |-> <<One, Two, Three, Four, Five>>],
     [typed |-> TRUE, a |-> <<Half, NumNeg(One), PosZero, Frac(3, 4), Two>>] >>

\* A fresh process in which the caller has constructed three vectors.
InitVectors ==
  /\ \E a \in Cube \cup SpecialVecs, b \in Operands : heap = <<a, b, Other>>
  /\ mats = CallerMats
  /\ quats = CallerQuats
  /\ MathTmp = <<>>
  /\ made = 0
  /\ arrays = CallerArrays
  /\ chains = <<>>
  /\ last = NoCall

---------------------------------------------------------------------------
(* The to-ref methods, called once with every aliasing of their instances *)

addToRefCall ==
  \E this, other, result \in Refs :
    Idle /\ Do(Call("addToRef", this, <<other>>, <<>>, 0, 0, result),
         addToRef(heap, this, other, result))

subtractToRefCall ==
  \E this, other, result \in Refs :
    Idle /\ Do(Call("subtractToRef", this, <<other>>, <<>>, 0, 0, result),
         subtractToRef(heap, this, other, result))

multiplyToRefCall ==
  \E this, other, result \in Refs :
    Idle /\ Do(Call("multiplyToRef", this, <<other>>, <<>>, 0, 0, result),
         multiplyToRef(heap, this, other, result))

divideToRefCall ==
  \E this, other, result \in Refs :
    Idle /\ Do(Call("divideToRef", this, <<other>>, <<>>, 0, 0, result),
         divideToRef(heap, this, other, result))

scaleToRefCall ==
  \E this, result \in Refs, k \in Scalars :
    Idle /\ Do(Call("scaleToRef", this, <<>>, <<k>>, 0, 0, result),
         scaleToRef(heap, this, k, result))

normalizeToRefCall ==
  \E this, result \in Refs :
    Idle /\ Do(Call("normalizeToRef", this, <<>>, <<>>, 0, 0, result),
         normalizeToRef(heap, this, result))

CrossToRefCall ==
  \E left, right, result \in Refs :
    Idle /\ Do(Call("CrossToRef", 0, <<left, right>>, <<>>, 0, 0, result),
         CrossToRef(heap, left, right, result))

ClampToRefCall ==
  \E value, min, max, result \in Refs :
    Idle /\ Do(Call("ClampToRef", 0, <<value, min, max>>, <<>>, 0, 0, result),
         ClampToRef(heap, value, min, max, result))

LerpToRefCall ==
  \E start, end, result \in Refs, amount \in Scalars :
    Idle /\ Do(Call("LerpToRef", 0, <<start, end>>, <<amount>>, 0, 0, result),
         LerpToRef(heap, start, end, amount, result))

TransformCoordinatesToRefCall ==
  \E vector, result \in Refs, m \in DOMAIN mats :
    Idle /\ Do(Call("TransformCoordinatesToRef", 0, <<vector>>, <<>>, m, 0, result),
         TransformCoordinatesToRef(heap, vector, mats[m], result))

TransformNormalToRefCall ==
  \E vector, result \in Refs, m \in DOMAIN mats :
    Idle /\ Do(Call("TransformNormalToRef", 0, <<vector>>, <<>>, m, 0, result),
         TransformNormalToRef(heap, vector, mats[m], result))

rotateToRefCall ==
  \E this, result \in Refs, q \in DOMAIN quats :
    Idle /\ Do(Call("rotateToRef", this, <<>>, <<>>, 0, q, result),
         rotateToRef(heap, this, quats[q], result))

applyMatrix4ToRefCall ==
  \E this, result \in Refs, m \in DOMAIN mats :
    Idle /\ Do(Call("applyMatrix4ToRef", this, <<>>, <<>>, m, 0, result),
         applyMatrix4ToRef(heap, this, mats[m], result))

NextToRef ==
  \/ addToRefCall
  \/ subtractToRefCall
  \/ multiplyToRefCall
  \/ divideToRefCall
  \/ scaleToRefCall
  \/ normalizeToRefCall
  \/ CrossToRefCall
  \/ ClampToRefCall
  \/ LerpToRefCall
  \/ TransformCoordinatesToRefCall
  \/ TransformNormalToRefCall
  \/ rotateToRefCall
  \/ applyMatrix4ToRefCall

SpecToRef == InitVectors /\ [][NextToRef]_vars

\* No value of the state is a sum that the number model cannot represent.
IsRep(a) == ~IsUnrep(a) \/ IsAcos(a) \/ IsOpaque(a)
NoUnrep ==
  /\ \A i \in DOMAIN heap : IsRep(heap[i].x) /\ IsRep(heap[i].y) /\ IsRep(heap[i].z)
  /\ IsRep(last.num)

ToRefOps ==
  { "addToRef", "subtractToRef", "multiplyToRef", "divideToRef", "scaleToRef",
    "normalizeToRef", "CrossToRef", "ClampToRef", "LerpToRef",
    "TransformCoordinatesToRef", "TransformNormalToRef", "rotateToRef",
    "applyMatrix4ToRef" }

\* What the last call stores in a result instance that is fresh: constructed just
\* before the call and distinct from every input.
FreshResult ==
  LET fresh == Zero(last.pre)
      o == Exec(fresh.h, mats, quats, [last.call EXCEPT !.result = fresh.ret])
  IN o.h[fresh.ret]

\* C1: a to-ref method stores in `result` the same three components whether `result`
\* is one of its vector inputs (this, an argument, or several at once) or a fresh
\* instance; a.addToRef(a, a) leaves in a what a.scale(2) returned for the original a;
\* CrossToRef(a, b, a) and CrossToRef(a, b, b) leave Cross(a, b) of the original operands.
C1_ToRefAliasing ==
  LET c == last.call
  IN c.op \in ToRefOps =>
       /\ heap[c.result] = FreshResult
       /\ (c.op = "addToRef" /\ c.this = c.result /\ c.args[1] = c.result) =>
            LET s == scale(last.pre, c.this, Two) IN heap[c.result] = s.h[s.ret]
       /\ c.op = "CrossToRef" =>
            LET x == Cross(last.pre, c.args[1], c.args[2]) IN heap[c.result] = x.h[x.ret]

\* CrossToRef(a, b, a) was called for two different vectors and changed a.
C1_Witness ==
  LET c == last.call
  IN /\ c.op = "CrossToRef"
     /\ c.result = c.args[1]
     /\ c.args[1] # c.args[2]
     /\ heap[c.result] # last.pre[c.result]
     /\ ~IsZero(heap[c.result].y) /\ IsFinite(heap[c.result].y)


---------------------------------------------------------------------------
(* The allocating forms, called once with every aliasing of their inputs,  *)
(* and a.add(b).subtract(c): subtract called on the instance add returned  *)

addCall ==
  \E this, otherVector \in Refs :
    Idle /\ Do(Call("add", this, <<otherVector>>, <<>>, 0, 0, 0),
         add(heap, this, otherVector))

subtractCall ==
  \E this, otherVector \in Refs :
    Idle /\ Do(Call("subtract", this, <<otherVector>>, <<>>, 0, 0, 0),
         subtract(heap, this, otherVector))

subtractOnSumCall ==
  \E otherVector \in Refs :
    /\ last.call.op = "add"
    /\ DoChained(Call("subtract", last.ret, <<otherVector>>, <<>>, 0, 0, 0),
         subtract(heap, last.ret, otherVector),
         [call |-> last.call, pre |-> last.pre])

subtractFromFloatsCall ==
  \E this \in Refs, f \in FloatTriples :
    Idle /\ Do(Call("subtractFromFloats", this, <<>>, f, 0, 0, 0),
         subtractFromFloats(heap, this, f[1], f[2], f[3]))

multiplyCall ==
  \E this, otherVector \in Refs :
    Idle /\ Do(Call("multiply", this, <<otherVector>>, <<>>, 0, 0, 0),
         multiply(heap, this, otherVector))

multiplyByFloatsCall ==
  \E this \in Refs, f \in FloatTriples :
    Idle /\ Do(Call("multiplyByFloats", this, <<>>, f, 0, 0, 0),
         multiplyByFloats(heap, this, f[1], f[2], f[3]))

divideCall ==
  \E this, otherVector \in Refs :
    Idle /\ Do(Call("divide", this, <<otherVector>>, <<>>, 0, 0, 0),
         divide(heap, this, otherVector))

scaleCall ==
  \E this \in Refs, k \in Scalars :
    Idle /\ Do(Call("scale", this, <<>>, <<k>>, 0, 0, 0),
         scale(heap, this, k))

negateCall == \E this \in Refs : Idle /\ Do(Call("negate", this, <<>>, <<>>, 0, 0, 0),
         negate(heap, this))

floorCall == \E this \in Refs : Idle /\ Do(Call("floor", this, <<>>, <<>>, 0, 0, 0),
         floor(heap, this))

fractCall == \E this \in Refs : Idle /\ Do(Call("fract", this, <<>>, <<>>, 0, 0, 0),
         fract(heap, this))

cloneCall == \E this \in Refs : Idle /\ Do(Call("clone", this, <<>>, <<>>, 0, 0, 0),
         clone(heap, this))

normalizeToNewCall ==
  \E this \in Refs : Idle /\ Do(Call("normalizeToNew", this, <<>>, <<>>, 0, 0, 0),
         normalizeToNew(heap, this))

AddCall ==
  \E vector1, vector2 \in Refs :
    Idle /\ Do(Call("Add", 0, <<vector1, vector2>>, <<>>, 0, 0, 0),
         Add(heap, vector1, vector2))

CrossCall ==
  \E left, right \in Refs :
    Idle /\ Do(Call("Cross", 0, <<left, right>>, <<>>, 0, 0, 0),
         Cross(heap, left, right))

NormalizeCall ==
  \E vector \in Refs : Idle /\ Do(Call("Normalize", 0, <<vector>>, <<>>, 0, 0, 0),
         Normalize(heap, vector))

LerpCall ==
  \E start, end \in Refs, amount \in Scalars :
    Idle /\ Do(Call("Lerp", 0, <<start, end>>, <<amount>>, 0, 0, 0),
         Lerp(heap, start, end, amount))

ClampCall ==
  \E value, min, max \in Refs :
    Idle /\ Do(Call("Clamp", 0, <<value, min, max>>, <<>>, 0, 0, 0),
         Clamp(heap, value, min, max))

MinimizeCall ==
  \E left, right \in Refs :
    Idle /\ Do(Call("Minimize", 0, <<left, right>>, <<>>, 0, 0, 0),
         Minimize(heap, left, right))

MaximizeCall ==
  \E left, right \in Refs :
    Idle /\ Do(Call("Maximize", 0, <<left, right>>, <<>>, 0, 0, 0),
         Maximize(heap, left, right))

CenterCall ==
  \E value1, value2 \in Refs :
    Idle /\ Do(Call("Center", 0, <<value1, value2>>, <<>>, 0, 0, 0),
         Center(heap, value1, value2))

HermiteCall ==
  \E value1, tangent1, value2, tangent2 \in Refs, amount \in Scalars :
    Idle /\ Do(Call("Hermite", 0, <<value1, tangent1, value2, tangent2>>, <<amount>>, 0, 0, 0),
         Hermite(heap, value1, tangent1, value2, tangent2, amount))

CatmullRomCall ==
  \E value1, value2, value3, value4 \in Refs, amount \in Scalars :
    Idle /\ Do(Call("CatmullRom", 0, <<value1, value2, value3, value4>>, <<amount>>, 0, 0, 0),
         CatmullRom(heap, value1, value2, value3, value4, amount))

TransformCoordinatesCall ==
  \E vector \in Refs, m \in DOMAIN mats :
    Idle /\ Do(Call("TransformCoordinates", 0, <<vector>>, <<>>, m, 0, 0),
         TransformCoordinates(heap, vector, mats[m]))

TransformNormalCall ==
  \E vector \in Refs, m \in DOMAIN mats :
    Idle /\ Do(Call("TransformNormal", 0, <<vector>>, <<>>, m, 0, 0),
         TransformNormal(heap, vector, mats[m]))

NextAlloc ==
  \/ addCall
  \/ subtractCall
  \/ subtractOnSumCall
  \/ subtractFromFloatsCall
  \/ multiplyCall
  \/ multiplyByFloatsCall
  \/ divideCall
  \/ scaleCall
  \/ negateCall
  \/ floorCall
  \/ fractCall
  \/ cloneCall
  \/ normalizeToNewCall
  \/ AddCall
  \/ CrossCall
  \/ NormalizeCall
  \/ LerpCall
  \/ ClampCall
  \/ MinimizeCall
  \/ MaximizeCall
  \/ CenterCall
  \/ HermiteCall
  \/ CatmullRomCall
  \/ TransformCoordinatesCall
  \/ TransformNormalCall

SpecAlloc == InitVectors /\ [][NextAlloc]_vars

AllocOps ==
  { "add", "subtract", "subtractFromFloats", "multiply", "multiplyByFloats", "divide",
    "scale", "negate", "floor", "fract", "clone", "normalizeToNew", "Add", "Cross",
    "Normalize", "Lerp", "Clamp", "Minimize", "Maximize", "Center", "Hermite",
    "CatmullRom", "TransformCoordinates", "TransformNormal" }

\* The instances a call was given: its receiver and its vector arguments.
Inputs(c) == (IF c.this = 0 THEN {} ELSE {c.this}) \cup {c.args[i] : i \in DOMAIN c.args}

\* C2: an allocating form returns an instance that did not exist before the call,
\* so one distinct from this and from every argument, and leaves this and every
\* argument (every instance that existed before the call) as it was.
C2_AllocatingFresh ==
  LET c == last.call
  IN c.op \in AllocOps =>
       /\ last.ret \in DOMAIN heap
       /\ last.ret \notin DOMAIN last.pre
       /\ last.ret \notin Inputs(c)
       /\ \A i \in DOMAIN last.pre : heap[i] = last.pre[i]

\* a.add(a) returned a new instance that holds something else than a does.
C2_Witness ==
  LET c == last.call
  IN /\ c.op = "add"
     /\ c.args[1] = c.this
     /\ last.ret \in DOMAIN heap
     /\ heap[last.ret] # heap[c.this]


---------------------------------------------------------------------------
(* The in-place forms, called once with every aliasing of their inputs,    *)
(* and a chained call made on what an in-place form returned               *)

addInPlaceCall ==
  \E this, otherVector \in Refs :
    Idle /\ Do(Call("addInPlace", this, <<otherVector>>, <<>>, 0, 0, 0),
         addInPlace(heap, this, otherVector))

addInPlaceFromFloatsCall ==
  \E this \in Refs, f \in FloatTriples :
    Idle /\ Do(Call("addInPlaceFromFloats", this, <<>>, f, 0, 0, 0),
         addInPlaceFromFloats(heap, this, f[1], f[2], f[3]))

subtractInPlaceCall ==
  \E this, otherVector \in Refs :
    Idle /\ Do(Call("subtractInPlace", this, <<otherVector>>, <<>>, 0, 0, 0),
         subtractInPlace(heap, this, otherVector))

scaleInPlaceCall ==
  \E this \in Refs, k \in Scalars :
    Idle /\ Do(Call("scaleInPlace", this, <<>>, <<k>>, 0, 0, 0),
         scaleInPlace(heap, this, k))

multiplyInPlaceCall ==
  \E this, otherVector \in Refs :
    Idle /\ Do(Call("multiplyInPlace", this, <<otherVector>>, <<>>, 0, 0, 0),
         multiplyInPlace(heap, this, otherVector))

divideInPlaceCall ==
  \E this, otherVector \in Refs :
    Idle /\ Do(Call("divideInPlace", this, <<otherVector>>, <<>>, 0, 0, 0),
         divideInPlace(heap, this, otherVector))

minimizeInPlaceCall ==
  \E this, other \in Refs :
    Idle /\ Do(Call("minimizeInPlace", this, <<other>>, <<>>, 0, 0, 0),
         minimizeInPlace(heap, this, other))

maximizeInPlaceCall ==
  \E this, other \in Refs :
    Idle /\ Do(Call("maximizeInPlace", this, <<other>>, <<>>, 0, 0, 0),
         maximizeInPlace(heap, this, other))

normalizeCall ==
  \E this \in Refs : Idle /\ Do(Call("normalize", this, <<>>, <<>>, 0, 0, 0),
         normalize(heap, this))

normalizeFromLengthCall ==
  \E this \in Refs, len \in Scalars \cup {One} :
    Idle /\ Do(Call("normalizeFromLength", this, <<>>, <<len>>, 0, 0, 0),
         normalizeFromLength(heap, this, len))

rotateCall ==
  \E this \in Refs, q \in DOMAIN quats :
    Idle /\ Do(Call("rotate", this, <<>>, <<>>, 0, q, 0),
         rotate(heap, this, quats[q]))

applyMatrix4Call ==
  \E this \in Refs, m \in DOMAIN mats :
    Idle /\ Do(Call("applyMatrix4", this, <<>>, <<>>, m, 0, 0),
         applyMatrix4(heap, this, mats[m]))

InPlaceOps ==
  { "addInPlace", "addInPlaceFromFloats", "subtractInPlace", "scaleInPlace",
    "multiplyInPlace", "divideInPlace", "minimizeInPlace", "maximizeInPlace",
    "normalize", "normalizeFromLength", "rotate", "applyMatrix4" }

\* v.op(...).scaleInPlace(k): a method call on undefined is a TypeError.
scaleInPlaceOnReturnCall ==
  \E k \in Scalars :
    /\ last.call.op \in InPlaceOps
    /\ last.chain = NoChain
    /\ DoChained(Call("scaleInPlace", last.ret, <<>>, <<k>>, 0, 0, 0),
         IF last.ret = Undef THEN TypeError(heap) ELSE scaleInPlace(heap, last.ret, k),
         [call |-> last.call, pre |-> last.pre])

NextInPlace ==
  \/ addInPlaceCall
  \/ addInPlaceFromFloatsCall
  \/ subtractInPlaceCall
  \/ scaleInPlaceCall
  \/ multiplyInPlaceCall
  \/ divideInPlaceCall
  \/ minimizeInPlaceCall
  \/ maximizeInPlaceCall
  \/ normalizeCall
  \/ normalizeFromLengthCall
  \/ rotateCall
  \/ applyMatrix4Call
  \/ scaleInPlaceOnReturnCall

SpecInPlace == InitVectors /\ [][NextInPlace]_vars

\* C3: an in-place form returns the instance it was called on, so that a call
\* chained on what it returned runs on that instance and raises nothing.
C3_InPlaceReturnsThis ==
  /\ (last.call.op \in InPlaceOps /\ last.chain = NoChain) => last.ret = last.call.this
  /\ last.chain.call.op \in InPlaceOps => ~last.threw

---------------------------------------------------------------------------
(* The scratch pool: a process in which getMathTmp, GetAngleBetweenVectors *)
(* and RotationFromAxisToRef are called any number of times, in any order, *)
(* each call complete before the next.  The caller's vectors are instances *)
(* 1..3; instance 4 is the one it passes as `ref`.                         *)

PoolVecs ==
  { Vec(One, PosZero, PosZero), Vec(PosZero, One, PosZero), Vec(One, One, PosZero),
    Vec(PosZero, PosZero, PosZero), Vec(NumNeg(One), PosZero, Two),
    Vec(Three, NumNeg(Four), NegZero), Vec(PosInf, One, Two), Vec(NaN, PosZero, One) }

InitPool ==
  /\ \E a \in PoolVecs :
       heap = <<a, Vec(PosZero, One, PosZero), Vec(PosZero, PosZero, One),
                Vec(PosZero, PosZero, PosZero)>>
  /\ mats = CallerMats
  /\ quats = CallerQuats
  /\ MathTmp = <<>>
  /\ made = 0
  /\ arrays = CallerArrays
  /\ chains = <<>>
  /\ last = NoCall

CallerRefs == 1..3
RefOut == 4

World == [heap |-> heap, mats |-> mats, quats |-> quats, MathTmp |-> MathTmp, made |-> made]

\* The caller makes call c, which leaves the world w and returned ret or threw.
DoWorld(c, w, ret, threw) ==
  /\ heap' = w.heap
  /\ mats' = w.mats
  /\ quats' = w.quats
  /\ MathTmp' = w.MathTmp
  /\ made' = w.made
  /\ UNCHANGED <<arrays, chains>>
  /\ last' = [call |-> c, pre |-> heap, ret |-> ret, num |-> NaN, threw |-> threw,
              chain |-> NoChain]

getMathTmpCall ==
  \E w \in {World} :
    DoWorld(Call("getMathTmp", 0, <<>>, <<>>, 0, 0, 0),
            getMathTmp(w).w, getMathTmp(w).ret, FALSE)

GetAngleBetweenVectorsCall ==
  \E vector0, vector1, normal \in CallerRefs :
    /\ Do(Call("GetAngleBetweenVectors", 0, <<vector0, vector1, normal>>, <<>>, 0, 0, 0),
          GetAngleBetweenVectors(heap, MathTmp, vector0, vector1, normal))

RotationFromAxisToRefCall ==
  \E axes \in {<<1, 2, 3>>, <<2, 1, 3>>}, w \in {World} :
    DoWorld(Call("RotationFromAxisToRef", 0, axes, <<>>, 0, 0, RefOut),
            RotationFromAxisToRef(w, axes[1], axes[2], axes[3], RefOut).w, Undef,
            RotationFromAxisToRef(w, axes[1], axes[2], axes[3], RefOut).threw)

NextPool ==
  \/ getMathTmpCall
  \/ GetAngleBetweenVectorsCall
  \/ RotationFromAxisToRefCall

SpecPool == InitPool /\ [][NextPool]_vars

\* The pool object: what MathTmp holds once it is defined.
Pool == MathTmp[1]

\* C4: every call of getMathTmp returns the one pool object: the first call constructs
\* it, no later call constructs another or reassigns MathTmp, and the pool always has
\* 6 Vector3 slots, 2 Matrix slots and 3 Quaternion slots, each its own instance, a
\* staticUp vector and a tmpMatrix.
C4_PoolSingleton ==
  [][ /\ made' <= 1
      /\ MathTmp # <<>> => MathTmp' = MathTmp
      /\ last'.call.op = "getMathTmp" =>
           /\ MathTmp' # <<>>
           /\ made' = 1
           /\ last'.ret = MathTmp'[1].id
      /\ MathTmp' # <<>> =>
           /\ Len(MathTmp'[1].Vector3) = 6
           /\ Len(MathTmp'[1].Matrix) = 2
           /\ Len(MathTmp'[1].Quaternion) = 3
           /\ Cardinality({MathTmp'[1].Vector3[i] : i \in 1..6}
                          \cup {MathTmp'[1].staticUp}) = 7
           /\ Cardinality({MathTmp'[1].Matrix[i] : i \in 1..2}
                          \cup {MathTmp'[1].tmpMatrix}) = 3
           /\ Cardinality({MathTmp'[1].Quaternion[i] : i \in 1..3}) = 3
           /\ \A i \in 1..6 : MathTmp'[1].Vector3[i] \in DOMAIN heap'
           /\ \A i \in 1..2 : MathTmp'[1].Matrix[i] \in DOMAIN mats'
           /\ \A i \in 1..3 : MathTmp'[1].Quaternion[i] \in DOMAIN quats'
           /\ MathTmp'[1].staticUp \in DOMAIN heap'
           /\ MathTmp'[1].tmpMatrix \in DOMAIN mats' ]_vars

\* getMathTmp was called in a process whose pool already existed and had been used.
C4_Witness ==
  /\ last.call.op = "getMathTmp"
  /\ MathTmp # <<>>
  /\ Len(last.pre) = Len(heap)
  /\ heap[Slot(MathTmp, 1)] # Vec(PosZero, PosZero, PosZero)

\* The heap h with every Vector3 slot of the pool holding v.
PoolFilled(h, v) ==
  [i \in DOMAIN h |-> IF i \in {Pool.Vector3[k] : k \in 1..6} THEN v ELSE h[i]]

\* What earlier calls may have left in a slot.
Fills == { Vec(PosZero, PosZero, PosZero), Vec(One, One, One), Vec(NumNeg(One), NumNeg(Two), NumNeg(Three)),
           Vec(NaN, PosInf, NegZero) }

\* C5: a complete call of GetAngleBetweenVectors(v0, v1, normal) on vectors of the
\* caller, made once the pool exists and after any sequence of complete calls of
\* GetAngleBetweenVectors and RotationFromAxisToRef, returns what the same call
\* returns when the scratch slots hold anything else before it.
C5_PoolNoninterference ==
  LET c == last.call
  IN (c.op = "GetAngleBetweenVectors" /\ MathTmp # <<>>) =>
       /\ ~last.threw
       /\ \A v \in Fills :
            last.num = GetAngleBetweenVectors(PoolFilled(last.pre, v), MathTmp,
                                              c.args[1], c.args[2], c.args[3]).num

\* GetAngleBetweenVectors returned an angle other than 0 from a pool whose slot 3
\* an earlier call had left non-zero.
C5_Witness ==
  LET c == last.call
  IN /\ c.op = "GetAngleBetweenVectors"
     /\ MathTmp # <<>>
     /\ IsAcos(last.num)
     /\ IsFinite(last.pre[Slot(MathTmp, 3)].z) /\ ~IsZero(last.pre[Slot(MathTmp, 3)].z)
     /\ last.pre[Slot(MathTmp, 3)] # heap[Slot(MathTmp, 3)]

\* C6: no call raises an error, in a process without a pool as in one with it.
C6_NoError == ~last.threw

---------------------------------------------------------------------------
(* Properties of the allocating forms' values *)

AllFinite(v) == IsFinite(v.x) /\ IsFinite(v.y) /\ IsFinite(v.z)

\* C8 as stated, for all a and b: Dot(a, Cross(a, b)) and Dot(b, Cross(a, b)) are
\* within Epsilon of 0.
C8_CrossOrthogonalAll ==
  LET c == last.call
  IN c.op = "Cross" =>
       /\ WithinEpsilon(Dot(heap, c.args[1], last.ret), PosZero, Epsilon)
       /\ WithinEpsilon(Dot(heap, c.args[2], last.ret), PosZero, Epsilon)

\* C8: for a and b whose components are all finite, Dot(a, Cross(a, b)) and
\* Dot(b, Cross(a, b)) are exactly 0.
C8_CrossOrthogonal ==
  LET c == last.call
  IN (c.op = "Cross" /\ AllFinite(last.pre[c.args[1]]) /\ AllFinite(last.pre[c.args[2]])) =>
       /\ StrictEq(Dot(heap, c.args[1], last.ret), PosZero)
       /\ StrictEq(Dot(heap, c.args[2], last.ret), PosZero)

\* Cross(a, b) of two finite vectors returned a vector with a non-zero component.
C8_Witness ==
  LET c == last.call
  IN /\ c.op = "Cross"
     /\ AllFinite(last.pre[c.args[1]]) /\ AllFinite(last.pre[c.args[2]])
     /\ c.args[1] # c.args[2]
     /\ ~IsZero(heap[last.ret].x) /\ ~IsZero(heap[last.ret].y)

\* a.add(b).subtract(b): subtract was called on what a.add(b) returned, with the same b.
RoundTrip ==
  /\ last.call.op = "subtract"
  /\ last.chain.call.op = "add"
  /\ last.call.args[1] = last.chain.call.args[1]

\* The round trip gave a back within Epsilon, in new instances, a and b untouched.
RoundTripRestores ==
  /\ equalsWithEpsilon(heap, last.ret, last.chain.call.this, Epsilon)
  /\ last.call.this \notin DOMAIN last.chain.pre
  /\ last.ret \notin DOMAIN last.pre
  /\ \A i \in DOMAIN last.chain.pre : heap[i] = last.chain.pre[i]

---------------------------------------------------------------------------
(* The three forms of TransformCoordinates, called once each *)

TransformCoordinatesFromFloatsToRefCall ==
  \E f \in FloatTriples, result \in Refs, m \in DOMAIN mats :
    Idle /\ Do(Call("TransformCoordinatesFromFloatsToRef", 0, <<>>, f, m, 0, result),
               TransformCoordinatesFromFloatsToRef(heap, f[1], f[2], f[3], mats[m], result))

NextTransform ==
  \/ TransformCoordinatesCall
  \/ TransformCoordinatesToRefCall
  \/ TransformCoordinatesFromFloatsToRefCall

SpecTransform == InitVectors /\ [][NextTransform]_vars

\* Row i (0..3) of (x, y, z, 1) times the 4x4 matrix m.
Row(x, y, z, m, i) ==
  NumAdd(NumAdd(NumAdd(NumMul(x, m[i + 1]), NumMul(y, m[i + 5])), NumMul(z, m[i + 9])),
         m[i + 13])

\* (x, y, z, 1) times m, divided by its fourth component w.
Homogeneous(x, y, z, m) ==
  Vec(NumDiv(Row(x, y, z, m, 0), Row(x, y, z, m, 3)),
      NumDiv(Row(x, y, z, m, 1), Row(x, y, z, m, 3)),
      NumDiv(Row(x, y, z, m, 2), Row(x, y, z, m, 3)))

TransformCoordinatesOps ==
  { "TransformCoordinates", "TransformCoordinatesToRef", "TransformCoordinatesFromFloatsToRef" }

\* C10: TransformCoordinates, TransformCoordinatesToRef and
\* TransformCoordinatesFromFloatsToRef compute (x, y, z, 1) times the matrix m divided
\* by w = x*m[3] + y*m[7] + z*m[11] + m[15]: result.x = (x*m[0] + y*m[4] + z*m[8] + m[12]) / w,
\* and y and z likewise with columns 1 and 2; the allocating form returns it in a new instance.
C10_TransformCoordinates ==
  LET c == last.call
      x == IF c.op = "TransformCoordinatesFromFloatsToRef" THEN c.f[1] ELSE last.pre[c.args[1]].x
      y == IF c.op = "TransformCoordinatesFromFloatsToRef" THEN c.f[2] ELSE last.pre[c.args[1]].y
      z == IF c.op = "TransformCoordinatesFromFloatsToRef" THEN c.f[3] ELSE last.pre[c.args[1]].z
  IN c.op \in TransformCoordinatesOps =>
       IF c.op = "TransformCoordinates"
       THEN /\ last.ret \notin DOMAIN last.pre
            /\ heap[last.ret] = Homogeneous(x, y, z, mats[c.m])
       ELSE heap[c.result] = Homogeneous(x, y, z, mats[c.m])

\* TransformCoordinatesToRef was called with a matrix that has a translation and a
\* w that is neither 0 nor 1, and stored finite non-zero components.
C10_Witness ==
  LET c == last.call
      v == last.pre[c.args[1]]
      w == Row(v.x, v.y, v.z, mats[c.m], 3)
  IN /\ c.op = "TransformCoordinatesToRef"
     /\ ~IsZero(mats[c.m][14])
     /\ IsFinite(w) /\ ~IsZero(w) /\ ~StrictEq(w, One)
     /\ AllFinite(heap[c.result])
     /\ ~IsZero(heap[c.result].x) /\ ~IsZero(heap[c.result].y) /\ ~IsZero(heap[c.result].z)

---------------------------------------------------------------------------
(* TransformCoordinates with the identity matrix *)

\* C11 as stated, for every vector v: TransformCoordinates(v, I), I the identity matrix,
\* returns a vector whose x, y and z are === those of v.
C11_IdentityAll ==
  LET c == last.call
  IN (c.op = "TransformCoordinates" /\ mats[c.m] = MatrixIdentity) =>
       equals(heap, last.ret, c.args[1])

\* C11: for every vector v whose components are all finite, TransformCoordinates(v, I)
\* returns a new vector whose x, y and z are === those of v (a component -0 of v comes
\* back as +0, which === takes for equal), and v is unchanged.
C11_Identity ==
  LET c == last.call
  IN (c.op = "TransformCoordinates" /\ mats[c.m] = MatrixIdentity
      /\ AllFinite(last.pre[c.args[1]])) =>
       /\ equals(heap, last.ret, c.args[1])
       /\ last.ret \notin DOMAIN last.pre
       /\ heap[c.args[1]] = last.pre[c.args[1]]

\* TransformCoordinates(v, I) was called for a finite v with two non-zero components
\* and a -0 one.
C11_Witness ==
  LET c == last.call
      v == last.pre[c.args[1]]
  IN /\ c.op = "TransformCoordinates" /\ mats[c.m] = MatrixIdentity
     /\ AllFinite(v) /\ v.x = NegZero /\ ~IsZero(v.y) /\ ~IsZero(v.z)
     /\ heap[last.ret].x = PosZero

---------------------------------------------------------------------------
(* The eight transforms by a matrix, called once each *)

TransformNormalFromFloatsToRefCall ==
  \E f \in FloatTriples, result \in Refs, m \in DOMAIN mats :
    Idle /\ Do(Call("TransformNormalFromFloatsToRef", 0, <<>>, f, m, 0, result),
               TransformNormalFromFloatsToRef(heap, f[1], f[2], f[3], mats[m], result))

NextMatrix ==
  \/ TransformCoordinatesCall
  \/ TransformCoordinatesToRefCall
  \/ TransformCoordinatesFromFloatsToRefCall
  \/ TransformNormalCall
  \/ TransformNormalToRefCall
  \/ TransformNormalFromFloatsToRefCall
  \/ applyMatrix4Call
  \/ applyMatrix4ToRefCall

SpecMatrix == InitVectors /\ [][NextMatrix]_vars

TransformNormalOps ==
  { "TransformNormal", "TransformNormalToRef", "TransformNormalFromFloatsToRef" }

TransformOps ==
  TransformCoordinatesOps \cup TransformNormalOps \cup { "applyMatrix4", "applyMatrix4ToRef" }

\* (x, y, z) times the upper-left 3x3 block of m: entries 0, 1, 2, 4, 5, 6, 8, 9, 10.
Linear(x, y, z, m) ==
  Vec(NumAdd(NumAdd(NumMul(x, m[1]), NumMul(y, m[5])), NumMul(z, m[9])),
      NumAdd(NumAdd(NumMul(x, m[2]), NumMul(y, m[6])), NumMul(z, m[10])),
      NumAdd(NumAdd(NumMul(x, m[3]), NumMul(y, m[7])), NumMul(z, m[11])))

\* The entries m[3], m[7], m[11], m[15] and m[12], m[13], m[14], as indices of a sequence.
OutsideLinear == {4, 8, 12, 16, 13, 14, 15}

\* Matrices that differ from m only in the translation and the homogeneous entries.
SameLinearPart(m) ==
  { [i \in 1..16 |-> IF i \in OutsideLinear THEN v ELSE m[i]] :
      v \in {PosZero, One, Frac(-3, 2), PosInf, NaN} }
  \cup { [i \in 1..16 |-> IF i \in {13, 14, 15} THEN Five
                          ELSE IF i \in {4, 8, 12, 16} THEN Half ELSE m[i]] }

\* What the call c of a TransformNormal form stores when it is given the 16 numbers m
\* in the heap h: the instance written and its components.
TransformNormalStored(h, c, m) ==
  IF c.op = "TransformNormal"
  THEN LET o == TransformNormal(h, c.args[1], m) IN [at |-> o.ret, v |-> o.h[o.ret]]
  ELSE IF c.op = "TransformNormalToRef"
  THEN [at |-> c.result, v |-> TransformNormalToRef(h, c.args[1], m, c.result).h[c.result]]
  ELSE [at |-> c.result,
        v |-> TransformNormalFromFloatsToRef(h, c.f[1], c.f[2], c.f[3], m, c.result).h[c.result]]

\* C12: TransformNormal, TransformNormalToRef and TransformNormalFromFloatsToRef store
\* (x, y, z) times the 3x3 block m[0], m[1], m[2], m[4], m[5], m[6], m[8], m[9], m[10],
\* without translation and without a divide; a matrix that differs only in m[12..14] or
\* in m[3], m[7], m[11], m[15] gives the same result for the same vector.
C12_TransformNormal ==
  LET c == last.call
      x == IF c.op = "TransformNormalFromFloatsToRef" THEN c.f[1] ELSE last.pre[c.args[1]].x
      y == IF c.op = "TransformNormalFromFloatsToRef" THEN c.f[2] ELSE last.pre[c.args[1]].y
      z == IF c.op = "TransformNormalFromFloatsToRef" THEN c.f[3] ELSE last.pre[c.args[1]].z
      at == IF c.op = "TransformNormal" THEN last.ret ELSE c.result
  IN c.op \in TransformNormalOps =>
       /\ heap[at] = Linear(x, y, z, mats[c.m])
       /\ \A m2 \in SameLinearPart(mats[c.m]) :
            TransformNormalStored(last.pre, c, m2) = [at |-> at, v |-> heap[at]]

\* TransformNormalToRef was called with a matrix that has a translation and a homogeneous
\* column other than (0, 0, 0, 1), and stored finite non-zero components that are not
\* those TransformCoordinatesToRef stores.
C12_Witness ==
  LET c == last.call
  IN /\ c.op = "TransformNormalToRef"
     /\ ~IsZero(mats[c.m][14]) /\ ~IsZero(mats[c.m][4]) /\ ~StrictEq(mats[c.m][16], One)
     /\ AllFinite(heap[c.result])
     /\ ~IsZero(heap[c.result].x) /\ ~IsZero(heap[c.result].y) /\ ~IsZero(heap[c.result].z)
     /\ heap[c.result] # TransformCoordinatesToRef(last.pre, c.args[1], mats[c.m], c.result).h[c.result]

---------------------------------------------------------------------------
(* The splines, called once each with an amount at, inside or past the ends *)

Amounts == { PosZero, NegZero, One, Half, Two }

HermiteAtCall ==
  \E value1, tangent1, value2, tangent2 \in Refs, amount \in Amounts :
    Idle /\ Do(Call("Hermite", 0, <<value1, tangent1, value2, tangent2>>, <<amount>>, 0, 0, 0),
               Hermite(heap, value1, tangent1, value2, tangent2, amount))

CatmullRomAtCall ==
  \E value1, value2, value3, value4 \in Refs, amount \in Amounts :
    Idle /\ Do(Call("CatmullRom", 0, <<value1, value2, value3, value4>>, <<amount>>, 0, 0, 0),
               CatmullRom(heap, value1, value2, value3, value4, amount))

NextSpline ==
  \/ HermiteAtCall
  \/ CatmullRomAtCall

SpecSpline == InitVectors /\ [][NextSpline]_vars

\* The four vector arguments of the last call, as they were before it, all finite.
ArgsFinite == \A i \in 1..4 : AllFinite(last.pre[last.call.args[i]])

\* t^2 and t^3
Sq(t) == NumMul(t, t)
Cu(t) == NumMul(t, NumMul(t, t))

\* p1 * (2t^3 - 3t^2 + 1) + p2 * (-2t^3 + 3t^2) + t1 * (t^3 - 2t^2 + t) + t2 * (t^3 - t^2)
Blend(p1, t1, p2, t2, t) ==
  NumAdd(NumAdd(NumAdd(
    NumMul(p1, NumAdd(NumSub(NumMul(Two, Cu(t)), NumMul(Three, Sq(t))), One)),
    NumMul(p2, NumAdd(NumMul(NumNeg(Two), Cu(t)), NumMul(Three, Sq(t))))),
    NumMul(t1, NumAdd(NumSub(Cu(t), NumMul(Two, Sq(t))), t))),
    NumMul(t2, NumSub(Cu(t), Sq(t))))

\* Hermite returned, in a new instance, the blend of its arguments with the four weights.
HermiteBlends ==
  LET c == last.call
      p1 == last.pre[c.args[1]]
      t1 == last.pre[c.args[2]]
      p2 == last.pre[c.args[3]]
      t2 == last.pre[c.args[4]]
  IN /\ last.ret \notin DOMAIN last.pre
     /\ heap[last.ret] = Vec(Blend(p1.x, t1.x, p2.x, t2.x, c.f[1]),
                             Blend(p1.y, t1.y, p2.y, t2.y, c.f[1]),
                             Blend(p1.z, t1.z, p2.z, t2.z, c.f[1]))

\* The spline called last returned its start point at amount 0 and its end point at
\* amount 1 (=== in x, y and z), the start being argument `from`, the end argument `to`.
EndsAt(from, to) ==
  /\ StrictEq(last.call.f[1], PosZero) => equals(heap, last.ret, last.call.args[from])
  /\ StrictEq(last.call.f[1], One) => equals(heap, last.ret, last.call.args[to])

\* C14 as stated, for all p1, t1, p2, t2: Hermite(p1, t1, p2, t2, 0) equals p1 and
\* Hermite(p1, t1, p2, t2, 1) equals p2, with the four weights 2t^3 - 3t^2 + 1,
\* -2t^3 + 3t^2, t^3 - 2t^2 + t and t^3 - t^2.
C14_HermiteAll == last.call.op = "Hermite" => (HermiteBlends /\ EndsAt(1, 3))

\* C14: Hermite(p1, t1, p2, t2, t) is p1 * (2t^3 - 3t^2 + 1) + p2 * (-2t^3 + 3t^2) +
\* t1 * (t^3 - 2t^2 + t) + t2 * (t^3 - t^2) in a new instance; when the components of
\* p1, t1, p2 and t2 are all finite it equals p1 at t = 0 and p2 at t = 1.
C14_Hermite ==
  last.call.op = "Hermite" => (HermiteBlends /\ (ArgsFinite => EndsAt(1, 3)))

\* Hermite was called at amount 1 with finite arguments, non-zero tangents and an end
\* point that differs from the start point in every component.
C14_Witness ==
  LET c == last.call
  IN /\ c.op = "Hermite" /\ c.f[1] = One /\ ArgsFinite
     /\ ~IsZero(heap[c.args[2]].x) /\ ~IsZero(heap[c.args[4]].y)
     /\ ~StrictEq(heap[c.args[1]].x, heap[c.args[3]].x)
     /\ ~StrictEq(heap[c.args[1]].y, heap[c.args[3]].y)
     /\ ~StrictEq(heap[c.args[1]].z, heap[c.args[3]].z)
     /\ c.args[2] # c.args[3] /\ c.args[4] # c.args[3]

\* C15 as stated, for all p0, p1, p2, p3: CatmullRom(p0, p1, p2, p3, 0) equals p1 and
\* CatmullRom(p0, p1, p2, p3, 1) equals p2.
C15_CatmullRomAll == last.call.op = "CatmullRom" => EndsAt(2, 3)

\* C15: when the components of p0, p1, p2 and p3 are all finite, CatmullRom(p0, p1, p2,
\* p3, 0) equals p1 and CatmullRom(p0, p1, p2, p3, 1) equals p2, in a new instance.
C15_CatmullRom ==
  (last.call.op = "CatmullRom" /\ ArgsFinite) =>
    (EndsAt(2, 3) /\ last.ret \notin DOMAIN last.pre)

\* CatmullRom was called at amount 1 with four finite points, p0 and p3 other
\* instances than p1 and p2, and p2 different from p1 in every component.
C15_Witness ==
  LET c == last.call
  IN /\ c.op = "CatmullRom" /\ c.f[1] = One /\ ArgsFinite
     /\ c.args[1] \notin {c.args[2], c.args[3]} /\ c.args[4] \notin {c.args[2], c.args[3]}
     /\ ~StrictEq(heap[c.args[2]].x, heap[c.args[3]].x)
     /\ ~StrictEq(heap[c.args[2]].y, heap[c.args[3]].y)
     /\ ~StrictEq(heap[c.args[2]].z, heap[c.args[3]].z)
     /\ ~IsZero(heap[c.args[1]].x)

---------------------------------------------------------------------------
(* The angle GetAngleBetweenVectors returns *)

\* Vector3.Normalize, Vector3.Cross and Vector3.Dot of vectors given by their components.
NormalizedOf(v) == Normalize(<<v>>, 1).h[2]
CrossOf(a, b) == Cross(<<a, b>>, 1, 2).h[3]
DotOf(a, b) == Dot(<<a, b>>, 1, 2)

\* pi / 2 is Math.acos(0).
HalfPi == Acos(PosZero)

E1 == Vec(One, PosZero, PosZero)
E2 == Vec(PosZero, One, PosZero)
E3 == Vec(PosZero, PosZero, One)

\* C16: a call of GetAngleBetweenVectors(v0, v1, normal) that returns, returns
\* +acos(dot) when Dot(Cross(n0, n1), normal) > 0 and -acos(dot) otherwise, n0 and n1
\* the normalized v0 and v1 and dot their dot product; for (1,0,0), (0,1,0) and normal
\* (0,0,1) it returns +pi/2, and -pi/2 with the two vectors swapped.
C16_Angle ==
  LET c == last.call
      v0 == last.pre[c.args[1]]
      v1 == last.pre[c.args[2]]
      normal == last.pre[c.args[3]]
      n0 == NormalizedOf(v0)
      n1 == NormalizedOf(v1)
  IN (c.op = "GetAngleBetweenVectors" /\ ~last.threw) =>
       /\ last.num = IF NumGt(DotOf(CrossOf(n0, n1), normal), PosZero)
                     THEN MathAcos(DotOf(n0, n1))
                     ELSE NumNeg(MathAcos(DotOf(n0, n1)))
       /\ (v0 = E1 /\ v1 = E2 /\ normal = E3) => last.num = HalfPi
       /\ (v0 = E2 /\ v1 = E1 /\ normal = E3) => last.num = NumNeg(HalfPi)
       /\ \A i \in 1..3 : heap[c.args[i]] = last.pre[c.args[i]]

\* GetAngleBetweenVectors((0,1,0), (1,0,0), (0,0,1)) returned -pi/2.
C16_Witness ==
  LET c == last.call
  IN /\ c.op = "GetAngleBetweenVectors" /\ ~last.threw
     /\ last.pre[c.args[1]] = E2 /\ last.pre[c.args[2]] = E1 /\ last.pre[c.args[3]] = E3
     /\ last.num = NumNeg(HalfPi)
     /\ last.num # HalfPi

---------------------------------------------------------------------------
(* The queries GetClipFactor and getHashCode, called once each on vectors  *)
(* the caller has constructed                                              *)

QueryVecs ==
  { Vec(PosZero, PosZero, PosZero), Vec(PosZero, PosZero, Int2Num(10)),
    Vec(One, Two, Three), Vec(Three, Two, One), Vec(NegZero, NegZero, NegZero),
    Vec(Half, Frac(-7, 2), Int2Num(9)), Vec(Int2Num(20000), NumNeg(Two), Three),
    Vec(NumNeg(One), NumNeg(Two), NumNeg(Three)), Vec(NaN, One, NegInf),
    Vec(PosInf, PosZero, One) }
QueryAxes == { Vec(PosZero, PosZero, One), Vec(One, One, PosZero) }
Sizes == { Five, PosZero, Frac(-1, 2) }

InitQuery ==
  /\ \E a, b \in QueryVecs, axis \in QueryAxes : heap = <<a, b, axis>>
  /\ mats = CallerMats
  /\ quats = CallerQuats
  /\ MathTmp = <<>>
  /\ made = 0
  /\ arrays = CallerArrays
  /\ chains = <<>>
  /\ last = NoCall

\* The axis is the third vector the caller constructed; vector0 and vector1 are any.
GetClipFactorCall ==
  \E vector0, vector1 \in Refs, axis \in {3}, size \in Sizes :
    Idle /\ Do(Call("GetClipFactor", 0, <<vector0, vector1, axis>>, <<size>>, 0, 0, 0),
               GetClipFactor(heap, vector0, vector1, axis, size))

getHashCodeCall ==
  \E this \in Refs :
    Idle /\ Do(Call("getHashCode", this, <<>>, <<>>, 0, 0, 0), getHashCode(heap, this))

NextQuery ==
  \/ GetClipFactorCall
  \/ getHashCodeCall

SpecQuery == InitQuery /\ [][NextQuery]_vars

\* d0 and d1 of the last call: Dot(v0, axis) - size and Dot(v1, axis) - size.
ClipD(i) ==
  NumSub(DotOf(last.pre[last.call.args[i]], last.pre[last.call.args[3]]), last.call.f[1])

\* GetClipFactor returned d0 / (d0 - d1), raised no error and changed no vector; for
\* (0,0,0), (0,0,10), axis (0,0,1) and size 5 it returned 0.5.
ClipFactorReturned ==
  LET c == last.call
  IN /\ ~last.threw
     /\ heap = last.pre
     /\ last.num = NumDiv(ClipD(1), NumSub(ClipD(1), ClipD(2)))
     /\ (/\ last.pre[c.args[1]] = Vec(PosZero, PosZero, PosZero)
         /\ last.pre[c.args[2]] = Vec(PosZero, PosZero, Int2Num(10))
         /\ last.pre[c.args[3]] = E3
         /\ c.f[1] = Five) => last.num = Half

\* d0 + s * (d1 - d0) = 0 for the s returned
OnPlane == StrictEq(NumAdd(ClipD(1), NumMul(last.num, NumSub(ClipD(2), ClipD(1)))), PosZero)

\* C17 as stated: GetClipFactor returns s = d0 / (d0 - d1), and whenever d0 != d1,
\* d0 + s * (d1 - d0) = 0.
C17_ClipFactorAll ==
  last.call.op = "GetClipFactor" =>
    (ClipFactorReturned /\ (~StrictEq(ClipD(1), ClipD(2)) => OnPlane))

\* C17: GetClipFactor(v0, v1, axis, size) returns s = d0 / (d0 - d1), d0 = Dot(v0, axis)
\* - size and d1 = Dot(v1, axis) - size, raises no error and changes no input, also when
\* d0 = d1; whenever d0 and d1 are finite and d0 != d1, d0 + s * (d1 - d0) = 0;
\* GetClipFactor((0,0,0), (0,0,10), (0,0,1), 5) returns 0.5.
C17_ClipFactor ==
  last.call.op = "GetClipFactor" =>
    /\ ClipFactorReturned
    /\ (IsFinite(ClipD(1)) /\ IsFinite(ClipD(2)) /\ ~StrictEq(ClipD(1), ClipD(2))) => OnPlane

\* GetClipFactor returned a finite s other than 0, 1 and 0.5 for distinct finite d0, d1.
C17_Witness ==
  /\ last.call.op = "GetClipFactor"
  /\ IsFinite(ClipD(1)) /\ IsFinite(ClipD(2)) /\ ~StrictEq(ClipD(1), ClipD(2))
  /\ IsFinite(last.num) /\ ~IsZero(last.num)
  /\ last.num \notin {One, Half}
  /\ ~IsZero(last.call.f[1])

\* GetClipFactor was called with d0 = d1, both finite, and returned an infinity or NaN.
C17_WitnessUnguarded ==
  /\ last.call.op = "GetClipFactor"
  /\ IsFinite(ClipD(1)) /\ StrictEq(ClipD(1), ClipD(2))
  /\ last.call.args[1] # last.call.args[2]
  /\ (IsInf(last.num) \/ IsNaN(last.num))

\* v.getHashCode() of a vector given by its components.
HashOf(v) == getHashCode(<<v>>, 1).num

\* The components of v are integers other than 0 that the model represents.
IntegerVec(v) ==
  \A a \in {v.x, v.y, v.z} : IsFinite(a) /\ ~IsZero(a) /\ a.d = 1 /\ a.r = 1

\* C18: for all vectors a and b with a.equals(b) true, a.getHashCode() equals
\* b.getHashCode(); for integer components the hash is ((x * 397) ^ y) * 397 ^ z in
\* 32-bit integers; it depends on the order of the components: that of (1, 2, 3) is
\* not that of (3, 2, 1).
C18_HashConsistent ==
  LET c == last.call
      a == last.pre[c.this]
  IN c.op = "getHashCode" =>
       /\ heap = last.pre
       /\ \A b \in Refs : equals(heap, c.this, b) => StrictEq(getHashCode(heap, b).num, last.num)
       /\ \A v \in QueryVecs :
            (StrictEq(a.x, v.x) /\ StrictEq(a.y, v.y) /\ StrictEq(a.z, v.z)) =>
              StrictEq(HashOf(v), last.num)
       /\ IntegerVec(a) =>
            last.num = Int2Num(Xor(Times397(Xor(a.x.n * HashFactor, a.y.n)), a.z.n))
       /\ a = Vec(One, Two, Three) => ~StrictEq(last.num, HashOf(Vec(Three, Two, One)))

\* getHashCode was called on (0, 0, 0) while the caller held (-0, -0, -0), which
\* equals() takes for the same vector.
C18_Witness ==
  LET c == last.call
  IN /\ c.op = "getHashCode"
     /\ last.pre[c.this] = Vec(PosZero, PosZero, PosZero)
     /\ \E b \in Refs : heap[b] = Vec(NegZero, NegZero, NegZero) /\ equals(heap, c.this, b)

\* getHashCode was called on a vector whose second product by 397 exceeds 32 bits.
C18_WitnessWraps ==
  LET c == last.call
  IN /\ c.op = "getHashCode"
     /\ AbsInt(Xor(ToInt32(NumMul(last.pre[c.this].x, Int2Num(HashFactor))),
                    ToInt32(last.pre[c.this].y))) > MaxInt32 \div HashFactor

---------------------------------------------------------------------------
(* What RotationFromAxisToRef itself writes *)

\* The statements of RotationFromAxisToRef (lines 803 to 805) hand scratch slot
\* Quaternion[0] to Quaternion.RotationQuaternionFromAxisToRef and copy its eulerAngles
\* into ref: a call that returns leaves in ref the angles of the quaternion that slot
\* holds, built from the three axes.  With a RotationQuaternionFromAxisToRef that writes
\* only the quaternion it is given (whether the one of ./Quaternion does is not decided
\* by src/src/Vector2.ts), every vector other than ref keeps its components.
RotationFromAxisWritesRef ==
  LET c == last.call
      quat == Pool.Quaternion[1]
  IN (c.op = "RotationFromAxisToRef" /\ ~last.threw) =>
       /\ quats[quat] = RotationQuaternionFromAxisToRef(quats, last.pre[c.args[1]],
                           last.pre[c.args[2]], last.pre[c.args[3]], quat)[quat]
       /\ heap[c.result] = eulerAngles(quats[quat])
       /\ \A i \in DOMAIN last.pre : i # c.result => heap[i] = last.pre[i]

\* RotationFromAxisToRef returned and changed ref.
RotationFromAxisReturned ==
  /\ last.call.op = "RotationFromAxisToRef" /\ ~last.threw
  /\ heap[last.call.result] # last.pre[last.call.result]

---------------------------------------------------------------------------
(* toArray, FromArray and FromArrayToRef: one call on a buffer, or a       *)
(* toArray followed by a read of the same buffer at the same offset        *)

\* A call on the array `array` at `index` (the offset of FromArray).
ArrayCall(op, this, array, index, result) ==
  Call(op, this, <<>>, <<>>, 0, 0, result) @@ [array |-> array, index |-> index]

\* The caller makes call c: it leaves the vectors h and the arrays ah and returns ret.
DoArray(c, h, ah, ret, chain) ==
  /\ heap' = h
  /\ arrays' = ah
  /\ UNCHANGED chains
  /\ last' = [call |-> c, pre |-> heap, ret |-> ret, num |-> NaN, threw |-> FALSE,
              chain |-> chain, preArrays |-> arrays]
  /\ UNCHANGED <<mats, quats, MathTmp, made>>

\* The offsets the caller passes: those at which three elements are, or come to be,
\* inside the array.
Offsets(array) ==
  IF array.typed THEN 0..(Len(array.a) - 3) ELSE 0..Len(array.a)
ReadOffsets(array) == 0..(Len(array.a) - 3)

toArrayCall ==
  \E this \in Refs, array \in DOMAIN arrays :
    \E index \in Offsets(arrays[array]) :
      /\ Idle
      /\ DoArray(ArrayCall("toArray", this, array, index, 0), heap,
                 toArray(arrays, heap, this, array, index).ah,
                 toArray(arrays, heap, this, array, index).ret, NoChain)

FromArrayCall ==
  \E array \in DOMAIN arrays :
    \E offset \in ReadOffsets(arrays[array]) :
      /\ Idle
      /\ DoArray(ArrayCall("FromArray", 0, array, offset, 0),
                 FromArray(heap, arrays[array], offset).h, arrays,
                 FromArray(heap, arrays[array], offset).ret, NoChain)

FromArrayToRefCall ==
  \E array \in DOMAIN arrays, result \in Refs :
    \E offset \in ReadOffsets(arrays[array]) :
      /\ Idle
      /\ DoArray(ArrayCall("FromArrayToRef", 0, array, offset, result),
                 FromArrayToRef(heap, arrays[array], offset, result).h, arrays, Undef, NoChain)

\* Vector3.FromArray(buf, off) after v.toArray(buf, off)
FromArrayOfWrittenCall ==
  /\ last.call.op = "toArray"
  /\ DoArray(ArrayCall("FromArray", 0, last.call.array, last.call.index, 0),
             FromArray(heap, arrays[last.call.array], last.call.index).h, arrays,
             FromArray(heap, arrays[last.call.array], last.call.index).ret,
             [call |-> last.call, pre |-> last.pre])

\* Vector3.FromArrayToRef(buf, off, result) after v.toArray(buf, off)
FromArrayToRefOfWrittenCall ==
  \E result \in Refs :
    /\ last.call.op = "toArray"
    /\ DoArray(ArrayCall("FromArrayToRef", 0, last.call.array, last.call.index, result),
               FromArrayToRef(heap, arrays[last.call.array], last.call.index, result).h,
               arrays, Undef, [call |-> last.call, pre |-> last.pre])

NextArray ==
  \/ toArrayCall
  \/ FromArrayCall
  \/ FromArrayToRefCall
  \/ FromArrayOfWrittenCall
  \/ FromArrayToRefOfWrittenCall

SpecArray == InitVectors /\ [][NextArray]_vars

ArrayOps == { "toArray", "FromArray", "FromArrayToRef" }

\* The vector a read stored: the one FromArray returned, the result of FromArrayToRef.
ReadInto == IF last.call.op = "FromArray" THEN last.ret ELSE last.call.result

\* toArray wrote x, y, z (as the array keeps them) at index, index + 1, index + 2,
\* changed no other element, no other array and no vector, and returned this.
ToArrayWrites ==
  LET c == last.call
      v == last.pre[c.this]
      before == last.preArrays[c.array]
      after == arrays[c.array]
      Kept(a) == IF before.typed THEN Fround(a) ELSE a
  IN /\ last.ret = c.this
     /\ heap = last.pre
     /\ \A k \in DOMAIN arrays : k # c.array => arrays[k] = last.preArrays[k]
     /\ after.typed = before.typed
     /\ after.a[c.index + 1] = Kept(v.x)
     /\ after.a[c.index + 2] = Kept(v.y)
     /\ after.a[c.index + 3] = Kept(v.z)
     /\ \A i \in DOMAIN before.a : i \notin (c.index + 1)..(c.index + 3) => after.a[i] = before.a[i]
     /\ DOMAIN after.a = DOMAIN before.a \cup (c.index + 1)..(c.index + 3)

\* FromArray and FromArrayToRef stored array[offset], array[offset + 1], array[offset + 2]
\* as x, y, z (FromArray in a new instance) and changed no array.
FromArrayReads ==
  LET c == last.call
      a == arrays[c.array].a
  IN /\ arrays = last.preArrays
     /\ heap[ReadInto] = Vec(a[c.index + 1], a[c.index + 2], a[c.index + 3])
     /\ c.op = "FromArray" => last.ret \notin DOMAIN last.pre
     /\ \A i \in DOMAIN last.pre : i # ReadInto => heap[i] = last.pre[i]

\* The last call read the buffer at the offset at which toArray had just written v.
ReadOfWritten == last.call.op \in {"FromArray", "FromArrayToRef"} /\ last.chain # NoChain

\* The vector v that toArray wrote.
Written == last.chain.pre[last.chain.call.this]

\* C20 as stated: toArray writes x, y, z in that order at index, index + 1, index + 2,
\* changes nothing else and returns this; FromArray and FromArrayToRef read the same
\* three positions; for every vector v, buffer and offset, FromArray(buf, off) after
\* v.toArray(buf, off) has the x, y and z of v.
C20_ArrayRoundTripAll ==
  /\ last.call.op = "toArray" => ToArrayWrites
  /\ last.call.op \in {"FromArray", "FromArrayToRef"} => FromArrayReads
  /\ ReadOfWritten => heap[ReadInto] = Written

\* C20: toArray writes x, y, z in that order at index, index + 1, index + 2 (a
\* Float32Array keeping Math.fround of each), changes nothing else and returns this;
\* FromArray and FromArrayToRef read the same three positions; FromArray(buf, off) after
\* v.toArray(buf, off) has the x, y and z of v when buf is a number[] or when a float
\* holds each of them, and Math.fround of them otherwise.
C20_ArrayRoundTrip ==
  /\ last.call.op = "toArray" => ToArrayWrites
  /\ last.call.op \in {"FromArray", "FromArrayToRef"} => FromArrayReads
  /\ ReadOfWritten =>
       /\ heap[ReadInto] = IF arrays[last.call.array].typed
                           THEN Vec(Fround(Written.x), Fround(Written.y), Fround(Written.z))
                           ELSE Written
       /\ (Float32Exact(Written.x) /\ Float32Exact(Written.y) /\ Float32Exact(Written.z))
            => heap[ReadInto] = Written

\* FromArray read back from a number[], at an offset other than 0, a vector with a
\* fraction that no float holds, a -0 and a non-zero third component.
C20_Witness ==
  /\ last.call.op = "FromArray" /\ last.chain # NoChain
  /\ ~arrays[last.call.array].typed
  /\ last.call.index > 0
  /\ ~Float32Exact(Written.x) /\ Written.y = NegZero /\ ~IsZero(Written.z)
  /\ heap[last.ret] = Written

---------------------------------------------------------------------------
(* The nine to-ref methods of an instance, called once with every          *)
(* choice of receiver and `result`                                         *)

subtractFromFloatsToRefCall ==
  \E this, result \in Refs, f \in FloatTriples :
    Idle /\ Do(Call("subtractFromFloatsToRef", this, <<>>, f, 0, 0, result),
               subtractFromFloatsToRef(heap, this, f[1], f[2], f[3], result))

scaleAndAddToRefCall ==
  \E this, result \in Refs, k \in Scalars :
    Idle /\ Do(Call("scaleAndAddToRef", this, <<>>, <<k>>, 0, 0, result),
               scaleAndAddToRef(heap, this, k, result))

NextReturn ==
  \/ addToRefCall
  \/ subtractToRefCall
  \/ subtractFromFloatsToRefCall
  \/ multiplyToRefCall
  \/ divideToRefCall
  \/ scaleToRefCall
  \/ scaleAndAddToRefCall
  \/ rotateToRefCall
  \/ applyMatrix4ToRefCall

SpecReturn == InitVectors /\ [][NextReturn]_vars

InstanceToRefOps ==
  { "addToRef", "subtractToRef", "subtractFromFloatsToRef", "multiplyToRef",
    "divideToRef", "scaleToRef", "scaleAndAddToRef", "rotateToRef", "applyMatrix4ToRef" }

\* C21: addToRef, subtractToRef, subtractFromFloatsToRef, multiplyToRef, divideToRef,
\* scaleToRef, scaleAndAddToRef, rotateToRef and applyMatrix4ToRef return the current
\* Vector3, the receiver of the call, which is left unmodified when `result` is a
\* different instance; they do not return the `result` argument.
C21_ReturnsReceiver ==
  LET c == last.call
  IN c.op \in InstanceToRefOps =>
       /\ last.ret = c.this
       /\ c.result # c.this => heap[c.this] = last.pre[c.this]

\* What the nine methods do return: the instance passed as `result`, which is the
\* receiver only when the caller passed the receiver; the receiver is left as it was
\* when `result` is another instance.
ReturnsResult ==
  LET c == last.call
  IN c.op \in InstanceToRefOps =>
       /\ last.ret = c.result
       /\ c.result # c.this => heap[c.this] = last.pre[c.this]

\* A to-ref call whose `result` is not the receiver returned, and changed `result`.
ReturnedToOther ==
  LET c == last.call
  IN /\ c.op \in InstanceToRefOps
     /\ c.result # c.this
     /\ heap[c.result] # last.pre[c.result]

---------------------------------------------------------------------------
(* The getter isNonUniform, read once on a vector the caller constructed   *)

UniformVecs ==
  { Vec(Two, Two, Two), Vec(Two, NumNeg(Two), Two), Vec(NumNeg(Half), NumNeg(Half), Half),
    Vec(PosZero, NegZero, PosZero), Vec(NegZero, NegZero, NegZero),
    Vec(NaN, NaN, NaN), Vec(One, One, NaN), Vec(PosInf, PosInf, PosInf),
    Vec(PosInf, NegInf, PosInf), Vec(One, Two, One), Vec(Three, Three, Four),
    Vec(Frac(3, 5), Frac(3, 5), Frac(3, 5)) }

InitUniform ==
  /\ \E a \in Cube \cup UniformVecs, b \in Operands : heap = <<a, b, Other>>
  /\ mats = CallerMats
  /\ quats = CallerQuats
  /\ MathTmp = <<>>
  /\ made = 0
  /\ arrays = CallerArrays
  /\ chains = <<>>
  /\ last = NoCall

\* The caller reads a getter of an instance it holds and gets the boolean b.
DoBool(c, b) ==
  /\ last' = [call |-> c, pre |-> heap, ret |-> Undef, num |-> NaN, threw |-> FALSE,
              chain |-> NoChain, bool |-> b]
  /\ UNCHANGED <<heap, mats, quats, MathTmp, made, arrays, chains>>

isNonUniformCall ==
  \E this \in Refs :
    Idle /\ DoBool(Call("isNonUniform", this, <<>>, <<>>, 0, 0, 0), isNonUniform(heap, this))

NextUniform ==
  \/ isNonUniformCall

SpecUniform == InitUniform /\ [][NextUniform]_vars

\* x === y and y === z for the vector v
AllSame(v) == StrictEq(v.x, v.y) /\ StrictEq(v.y, v.z)

\* C22: isNonUniform is true exactly when x, y and z are not all the same value, and
\* false exactly when x = y = z (the values compared with ===, so that 0 and -0 are
\* the same value and NaN differs from every value).
C22_NonUniform ==
  LET c == last.call
  IN c.op = "isNonUniform" => (last.bool <=> ~AllSame(heap[c.this]))

\* What the getter does decide: it is false exactly when the three absolute values are
\* === one another, whatever the signs; a NaN component makes it true.
NonUniformOfAbs ==
  LET c == last.call
      v == heap[c.this]
  IN c.op = "isNonUniform" =>
       /\ ~last.bool <=> AllSame(Vec(MathAbs(v.x), MathAbs(v.y), MathAbs(v.z)))
       /\ AllSame(v) => ~last.bool
       /\ (IsNaN(v.x) \/ IsNaN(v.y) \/ IsNaN(v.z)) => last.bool

\* The getter answered false for a vector whose components differ in sign only.
UniformUpToSign ==
  LET c == last.call
  IN /\ c.op = "isNonUniform"
     /\ ~last.bool
     /\ ~AllSame(heap[c.this])
     /\ ~IsZero(heap[c.this].x)

---------------------------------------------------------------------------
(* Interleaved calls of GetAngleBetweenVectors.  A chain is one call in    *)
(* progress: [pc, args, dot, num, threw, mixed].  pc is the statement it   *)
(* executes next, dot its local `dot`, num what it returned; its locals    *)
(* v0, v1 and n are the slots MathTmp.Vector3[1], [2] and [3] themselves.  *)
(* A step is one statement of the method, which reads or writes the slots; *)
(* any chain in progress may take the next step.  mixed records that       *)
(* another chain took a step between two steps of this one.                *)

MaxChains == 2
ChainArgs == { <<1, 2, 3>>, <<2, 1, 3>> }
ChainVecs ==
  { Vec(One, PosZero, PosZero), Vec(One, One, PosZero), Vec(Three, NumNeg(Four), NegZero) }

\* A fresh process in which the caller has constructed three vectors, the second
\* and third of them the y and z axes.
InitChains ==
  /\ \E a \in ChainVecs : heap = <<a, Vec(PosZero, One, PosZero), Vec(PosZero, PosZero, One)>>
  /\ mats = CallerMats
  /\ quats = CallerQuats
  /\ MathTmp = <<>>
  /\ made = 0
  /\ arrays = CallerArrays
  /\ chains = <<>>
  /\ last = NoCall
InProgress == { "v1", "dot", "cross", "ret" }

\* The chains after chain i took a step that left it as `c`.
Stepped(i, c) ==
  [k \in DOMAIN chains |->
     IF k = i THEN c
     ELSE IF chains[k].pc \in InProgress THEN [chains[k] EXCEPT !.mixed = TRUE]
     ELSE chains[k]]

\* A caller, or a callback running inside another call, calls the method.
BeginChain ==
  \E args \in ChainArgs :
    /\ Len(chains) < MaxChains
    /\ chains' = Append(chains, [pc |-> "v0", args |-> args, dot |-> NaN, num |-> NaN,
                                 threw |-> FALSE, mixed |-> FALSE])
    /\ UNCHANGED <<heap, mats, quats, MathTmp, made, arrays, last>>

\* A step of chain i that leaves the heap h and the chain as c.
DoStep(i, h, c) ==
  /\ heap' = h
  /\ chains' = Stepped(i, c)
  /\ UNCHANGED <<mats, quats, MathTmp, made, arrays, last>>

\* const v0 = vector0.normalizeToRef(MathTmp.Vector3[1])
StepNormalize0 ==
  \E i \in DOMAIN chains :
    /\ chains[i].pc = "v0"
    /\ IF MathTmp = <<>>
       THEN DoStep(i, heap, [chains[i] EXCEPT !.pc = "done", !.threw = TRUE])
       ELSE DoStep(i, normalizeToRef(heap, chains[i].args[1], Slot(MathTmp, 1)).h,
                   [chains[i] EXCEPT !.pc = "v1"])

\* A second statement that normalizes vector1 into the slot of v0.
StepNormalize1IntoSlot1 ==
  \E i \in DOMAIN chains :
    /\ chains[i].pc = "v1"
    /\ DoStep(i, normalizeToRef(heap, chains[i].args[2], Slot(MathTmp, 1)).h,
              [chains[i] EXCEPT !.pc = "dot"])

\* const v1 = vector1.normalizeToRef(MathTmp.Vector3[2])
StepNormalize1 ==
  \E i \in DOMAIN chains :
    /\ chains[i].pc = "v1"
    /\ DoStep(i, normalizeToRef(heap, chains[i].args[2], Slot(MathTmp, 2)).h,
              [chains[i] EXCEPT !.pc = "dot"])

\* const dot = Vector3.Dot(v0, v1)
StepDot ==
  \E i \in DOMAIN chains :
    /\ chains[i].pc = "dot"
    /\ DoStep(i, heap, [chains[i] EXCEPT !.pc = "cross",
                          !.dot = Dot(heap, Slot(MathTmp, 1), Slot(MathTmp, 2))])

\* const n = MathTmp.Vector3[3]; Vector3.CrossToRef(v0, v1, n)
StepCross ==
  \E i \in DOMAIN chains :
    /\ chains[i].pc = "cross"
    /\ DoStep(i, CrossToRef(heap, Slot(MathTmp, 1), Slot(MathTmp, 2), Slot(MathTmp, 3)).h,
              [chains[i] EXCEPT !.pc = "ret"])

\* if (Vector3.Dot(n, normal) > 0) return Math.acos(dot); return -Math.acos(dot)
StepReturn ==
  \E i \in DOMAIN chains :
    /\ chains[i].pc = "ret"
    /\ DoStep(i, heap,
              [chains[i] EXCEPT !.pc = "done",
                 !.num = GetAngleSign(heap, MathTmp, chains[i].dot, chains[i].args[3]).num])

NextInterleaved ==
  \/ getMathTmpCall
  \/ BeginChain
  \/ StepNormalize0
  \/ StepNormalize1
  \/ StepDot
  \/ StepCross
  \/ StepReturn

SpecInterleaved == InitChains /\ [][NextInterleaved]_vars

\* What the call of chain c returns when it runs alone, whatever the slots hold.
Isolated(h, mt, c) == GetAngleBetweenVectors(h, mt, c.args[1], c.args[2], c.args[3]).num

Returned(c) == c.pc = "done" /\ ~c.threw

\* Every chain that returned and between whose steps no other chain took a step
\* returned the angle it returns alone.
Unmixed(h, mt, cs) ==
  \A i \in DOMAIN cs : (Returned(cs[i]) /\ ~cs[i].mixed) => cs[i].num = Isolated(h, mt, cs[i])

ScratchSlots == { Slot(MathTmp, 1), Slot(MathTmp, 2), Slot(MathTmp, 3) }

\* C23: the pool has no lock, reservation or ownership token: two chains of
\* GetAngleBetweenVectors interleaved at their scratch reads and writes both use the
\* slots Vector3[1], Vector3[2] and Vector3[3] (every write of a step of either chain
\* goes to one of the three), and a chain can then return an angle other than the one
\* it returns alone; a chain between whose steps no other chain took a step returns
\* the angle it returns alone.
C23_Interleaving ==
  [][ /\ Unmixed(heap', MathTmp', chains')
      /\ \A r \in DOMAIN heap :
           (chains' # chains /\ heap'[r] # heap[r]) => r \in ScratchSlots ]_vars

\* Two chains ran interleaved, each wrote the slots, and the first returned an angle
\* that is a number and is not the angle it returns alone, while the second, whose
\* steps ran without a step of the first between them, returned its own.
C23_Witness ==
  /\ Len(chains) = 2
  /\ Returned(chains[1]) /\ Returned(chains[2])
  /\ chains[1].mixed /\ ~chains[2].mixed
  /\ IsAcos(MathAbs(chains[1].num))
  /\ chains[1].num # Isolated(heap, MathTmp, chains[1])
  /\ chains[2].num = Isolated(heap, MathTmp, chains[2])

---------------------------------------------------------------------------
(* What a call of GetAngleBetweenVectors writes *)

\* The vector a fresh pool holds in staticUp.
UpVector == Vec(PosZero, One, PosZero)

\* C24: a call of GetAngleBetweenVectors(v0, v1, normal) on vectors that are not
\* scratch slots writes only the pool slots Vector3[1], Vector3[2] and Vector3[3]: it
\* leaves v0, v1 and normal, Vector3[0], Vector3[4], Vector3[5], every Matrix and
\* Quaternion slot, tmpMatrix and staticUp as they were and constructs nothing; after
\* any sequence of calls staticUp is (0, 1, 0).
C24_Frame ==
  [][ /\ last'.call.op = "GetAngleBetweenVectors" =>
           /\ DOMAIN heap' = DOMAIN heap
           /\ \A r \in DOMAIN heap :
                heap'[r] # heap[r] =>
                  /\ MathTmp # <<>>
                  /\ r \in { Slot(MathTmp, 1), Slot(MathTmp, 2), Slot(MathTmp, 3) }
           /\ \A k \in 1..3 : heap'[last'.call.args[k]] = heap[last'.call.args[k]]
           /\ MathTmp # <<>> =>
                /\ \A k \in {0, 4, 5} : heap'[Slot(MathTmp, k)] = heap[Slot(MathTmp, k)]
                /\ heap'[Pool.staticUp] = heap[Pool.staticUp]
           /\ mats' = mats /\ quats' = quats
           /\ MathTmp' = MathTmp /\ made' = made
      /\ MathTmp' # <<>> => heap'[MathTmp'[1].staticUp] = UpVector ]_vars

\* GetAngleBetweenVectors returned an angle for a first argument that is not a unit
\* vector, wrote each of the slots 1, 2 and 3, and left alone a Quaternion slot that an
\* earlier RotationFromAxisToRef had written.
C24_Witness ==
  /\ last.call.op = "GetAngleBetweenVectors" /\ ~last.threw
  /\ IsAcos(MathAbs(last.num))
  /\ \A k \in 1..3 : heap[Slot(MathTmp, k)] # last.pre[Slot(MathTmp, k)]
  /\ heap[Slot(MathTmp, 1)] # heap[last.call.args[1]]
  /\ quats[Pool.Quaternion[1]] # QuaternionZero
  /\ heap[Pool.staticUp] = UpVector


=============================================================================
